---- MODULE Spec2Model ----
(***************************************************************************)
(* librbd::DiffIterate::execute() (src/librbd/DiffIterate.cc) as a state   *)
(* machine: snapshot resolution, the fast-diff walk over the object maps,  *)
(* the parent diff, the per-period object loop, and the DiffContext        *)
(* scheduler (start_op / finish_op / invoke_callback / wait_for_ret) with  *)
(* object-query completions running on other threads.                      *)
(*                                                                         *)
(* Data that the code reads once from a collaborator (an object map, a     *)
(* snapshot size, the result of an object query, the return value of the   *)
(* user callback, the result of the parent's diff) is chosen at the step   *)
(* that reads it.                                                          *)
(***************************************************************************)
EXTENDS Integers, Sequences, FiniteSets

(* ------------------------------ bounds -------------------------------- *)

\* snapshot ids are 1..MaxSnapId
MaxSnapId == 2
\* largest configured concurrent_management_ops
MaxOps == 2
\* object size (= stripe unit = stripe period of the default layout), bytes
ObjSize == 3
\* largest requested length, bytes
MaxLen == 7
\* largest object count of an image whose object maps are walked
MaxObjs == 2
MaxN == 2
MaxBase == 2
MaxLive == 3

(* ------------------------- program constants -------------------------- *)

ENOENT == 2
EINVAL == 22

OBJECT_DIFF_STATE_NONE == 0
OBJECT_DIFF_STATE_UPDATED == 1
OBJECT_DIFF_STATE_HOLE == 2

OBJECT_NONEXISTENT == 0
OBJECT_EXISTS == 1
OBJECT_EXISTS_CLEAN == 3

\* (uint64_t)-2 in the code: greater than every snapshot id
CEPH_NOSNAP == MaxSnapId + 1

\* largest image size, bytes
MaxSize == MaxObjs * ObjSize

\* "no value yet" of the return value of execute(): a value no status takes
Running == 4096
\* the value of a local that has not been assigned (int r; at line 297): a
\* value no status takes
Uninit == -4096

(* ------------------- values the collaborators return ------------------ *)

\* aio_operate / list_snaps completion status r, and m_snap_ret
QueryRets == {0, -ENOENT, -5}
SnapRets == {0, -ENOENT}
\* the user callback's return value
CallbackRets == {0, 1, -125}
\* cls_client::object_map_load
LoadRets == {0, -5}
\* ImageCtx::get_flags
FlagsRets == {0, -ENOENT, -5}

(* ------------------------------ helpers ------------------------------- *)

Min(a, b) == IF a < b THEN a ELSE b

SetMin(S) == CHOOSE x \in S : \A y \in S : x <= y

\* interval_set<uint64_t>: the set of the bytes it covers
IntervalInsert(start, len) == start .. (start + len - 1)

\* interval_set iteration: the maximal runs <<start, len>>, ascending
RECURSIVE IntervalRuns(_)
IntervalRuns(S) ==
  IF S = {} THEN <<>>
  ELSE LET s == SetMin(S)
           e == CHOOSE x \in S : /\ x >= s
                                 /\ (s .. x) \subseteq S
                                 /\ (x + 1) \notin S
       IN <<  <<s, e - s + 1>>  >> \o IntervalRuns(S \ (s .. e))

\* Striper::get_num_objects for the default layout
get_num_objects(size) == (size + ObjSize - 1) \div ObjSize

\* m_image_ctx.get_stripe_period()
get_stripe_period == ObjSize

\* Striper::file_to_extents for the default layout (stripe_count 1,
\* stripe_unit = object_size), buffer_offset 0: a read inside one period
\* maps to one object with one extent and one buffer extent
file_to_extents(o, len) ==
  IF len = 0 THEN <<>>
  ELSE << [objectno |-> o \div ObjSize,
           extents  |-> << [objectno       |-> o \div ObjSize,
                            offset         |-> o % ObjSize,
                            length         |-> len,
                            buffer_extents |-> << <<0, len>> >>] >>] >>

\* ImageCtx::get_snap_id(name): the name "i" is snapshot i's
get_snap_id(name, snapset) == IF name \in snapset THEN name ELSE CEPH_NOSNAP

(* ------------------------------- state -------------------------------- *)

VARIABLES
  \* DiffIterate members and the image
  m_from_snap_name,          \* 0: NULL, i: the name of snapshot i
  m_offset, m_length,
  m_whole_object, m_include_parent,
  m_callback,                \* "user", or "simple_diff_cb" in a parent diff
  snaps,                     \* m_image_ctx.snap_info keys
  snap_id,                   \* m_image_ctx.snap_id
  fast_diff_feature,         \* m_image_ctx.features & RBD_FEATURE_FAST_DIFF
  fast_diff_invalid,         \* the snapshots (and head) whose flags have
                             \* RBD_FLAG_FAST_DIFF_INVALID
  parent,                    \* m_image_ctx.parent != NULL
  parent_ctx,                \* *m_image_ctx.parent
  concurrent_management_ops,
  \* execute() locals
  pc, from_snap_id, end_snap_id, r, fast_diff_enabled, object_diff_state,
  off, left, read_len, todo, qs, updated, call_site, ret,
  \* diff_object_map() locals
  walk,
  \* DiffContext
  parent_diff, m_lock, m_pending_ops, m_return_value, m_next_request,
  m_waiting_request, m_request_diffs,
  \* invoke_callback() locals
  diffs, cb,
  \* C_DiffObject instances: the one under construction, the ones sent
  diff_object, sent,
  \* history
  hist,
  \* the callers whose line 335 this execute() was called from, the
  \* innermost first: their members, images, locals and DiffContext
  stack

VARIABLES
  \* preallocator<T, N, RecordingAllocator<T>> and its client
  N,                         \* the template parameter: the inline capacity
  alive,                     \* the process has not been killed
  index,                     \* index of the next inline entry to allocate
  live,                      \* the blocks the client holds, oldest first
  allocs, deallocs,          \* RecordingAllocator: the calls passed through
  last                       \* history: the last call and what it did

diffVars == << m_from_snap_name, m_offset, m_length, m_whole_object,
               m_include_parent, snaps, snap_id, fast_diff_feature,
               fast_diff_invalid, parent, parent_ctx,
               concurrent_management_ops, m_callback,
               pc, from_snap_id, end_snap_id, r, fast_diff_enabled,
               object_diff_state, off, left, read_len, todo, qs, updated,
               call_site, ret, walk, parent_diff, m_lock, m_pending_ops, m_return_value,
               m_next_request, m_waiting_request, m_request_diffs, diffs, cb,
               diff_object, sent, hist, stack >>

allocVars == << N, alive, index, live, allocs, deallocs, last >>

VARIABLE
  \* one pass of the overlap loop of diff_object_map on its own: the two
  \* object maps, object_diff_state before the pass and after it
  overlap_step

vars == << diffVars, allocVars, overlap_step >>

inputVars == << m_from_snap_name, m_offset, m_length, m_whole_object,
                m_include_parent, snaps, snap_id, fast_diff_feature,
                fast_diff_invalid, parent, parent_ctx,
                concurrent_management_ops, m_callback >>

ctxVars == << parent_diff, m_lock, m_pending_ops, m_return_value,
              m_next_request, m_waiting_request, m_request_diffs, diffs, cb,
              diff_object, sent >>

loopVars == << off, left, read_len, todo, qs, call_site >>

NoWalk == [active |-> FALSE]

\* history: what has happened so far in this invocation
HistInit ==
  [ callbacks     |-> 0,       \* invocations of the user callback
    offsets       |-> <<>>,    \* the offsets of the last two of them
    in_range      |-> TRUE,    \* every record was inside the requested range
    first_failure |-> 0,       \* first negative status at line 71 or 102
    failures      |-> 0,       \* negative statuses at line 71 or 102
    r_from        |-> "none",  \* which call assigned execute()'s r last
    ret_line      |-> 0,       \* the line of the return statement taken
    fast_tried    |-> FALSE,   \* diff_object_map was called
    parent_runs   |-> 0,       \* parent diffs started
    overlap       |-> -1,      \* overlap as lines 326-327 left it
    parent_range  |-> <<>>,    \* offset and length given to the parent diff
    parent_r      |-> 0,       \* what the parent diff returned
    parent_exit   |-> "none",  \* where it is: "running", "returned"
    queries_sent  |-> 0,       \* object queries sent
    late_submits  |-> 0,       \* start_op calls with the sticky error set
    stored        |-> 0,       \* records stored by finish_op
    cb_negative   |-> FALSE,   \* the callback has returned a negative status
    cb_after      |-> FALSE,   \* and was invoked again after that
    deliveries    |-> 0,       \* requests taken from m_request_diffs
    delivering    |-> 0,       \* the request number of the last one taken
    fast_object   |-> 0,       \* fast path: the object of the last callback
    fast_state    |-> 0,       \* the state lines 365-366 read for it
    read_state    |-> 0,       \* the state lines 365-366 read last
    fast_extents  |-> 0,       \* the extents of the objects they read
                               \* as not None
    fast_exists   |-> FALSE,   \* and the exists argument it was given
    arg           |-> {} ]     \* the bytes simple_diff_cb has inserted

\* the history after the callback was invoked with the record <rec>
Invoked(h, rec) ==
  [h EXCEPT !.callbacks = @ + 1,
            !.offsets = IF Len(@) < 2 THEN Append(@, rec[1])
                        ELSE << @[2], rec[1] >>,
            !.in_range = /\ @
                         /\ rec[1] >= m_offset
                         /\ rec[1] + rec[2] <= m_offset + m_length,
            !.cb_after = @ \/ h.cb_negative]

\* the history after the callback has returned <rv>
Returned(h, rv) == [h EXCEPT !.cb_negative = @ \/ rv < 0]

\* line 519: the assertion of simple_diff_cb fails on the record <rec>
AssertFails(rec) == m_callback = "simple_diff_cb" /\ ~rec[3]

\* lines 520-522: simple_diff_cb returns 0; a callback of the caller can
\* return anything
CallbackReturns ==
  IF m_callback = "simple_diff_cb" THEN {0} ELSE CallbackRets

\* lines 520-521: the history after the callback has run on <rec>
Inserted(h, rec) ==
  IF m_callback = "simple_diff_cb"
  THEN [h EXCEPT !.arg = @ \cup (rec[1] .. (rec[1] + rec[2] - 1))]
  ELSE h

\* lines 520-521: the callers after the callback has run on <rec>; the arg
\* of simple_diff_cb is the parent_diff of the caller's DiffContext (line
\* 334)
InsertedArg(rec) ==
  IF m_callback = "simple_diff_cb" /\ stack # <<>>
  THEN [stack EXCEPT ![1].parent_diff = @ \cup (rec[1] .. (rec[1] + rec[2] - 1))]
  ELSE stack

\* the history after status <rv> was seen at line 71 or line 102
Seen(h, rv) ==
  [h EXCEPT !.first_failure = IF @ = 0 /\ rv < 0 THEN rv ELSE @,
            !.failures = IF rv < 0 THEN @ + 1 ELSE @]

(* -------------------------------- Init -------------------------------- *)

\* no image: what m_image_ctx.parent points to when it is NULL
NoImage == [snaps |-> {}]

\* a parent image: without a parent of its own, open at the head, no flag
\* invalid; <overlap> is what get_parent_overlap reports of it
Image(snapset, feature, ops, overlap) ==
  [snaps |-> snapset, snap_id |-> CEPH_NOSNAP, fast_diff_feature |-> feature,
   fast_diff_invalid |-> {}, parent |-> FALSE, parent_ctx |-> NoImage,
   concurrent_management_ops |-> ops, overlap |-> overlap]

\* the logical sizes a snapshot or the head can have
ImageSizes == { n * ObjSize : n \in 0 .. MaxObjs }

\* parent images: one with the fast-diff feature and snapshot 1, and one
\* without the feature and without a snapshot that allows no operation in
\* flight, or one; each with every overlap
ParentImages ==
  UNION { { Image({1}, TRUE, 1, overlap), Image({}, FALSE, 0, overlap),
            Image({}, FALSE, 1, overlap) } : overlap \in ImageSizes }

InitCallback(names, snapsets, heads, offsets, lengths, wholes, features, invalids, parents, opss, callbacks, images) ==
  /\ m_callback \in callbacks
  /\ m_from_snap_name \in names
  /\ snaps \in snapsets
  /\ snap_id \in (snaps \cup {CEPH_NOSNAP}) \cap heads
  /\ m_offset \in offsets
  /\ m_length \in lengths
  /\ m_whole_object \in wholes
  /\ fast_diff_feature \in features
  /\ fast_diff_invalid \in invalids
  /\ fast_diff_invalid \subseteq snaps \cup {CEPH_NOSNAP}
  /\ m_include_parent \in parents
  /\ parent \in parents
  /\ parent_ctx \in (IF parent THEN images ELSE {NoImage})
  /\ concurrent_management_ops \in opss
  /\ pc = "resolve"
  /\ from_snap_id = 0
  /\ end_snap_id = 0
  /\ r = Uninit
  /\ fast_diff_enabled = FALSE
  /\ object_diff_state = <<>>
  /\ off = 0
  /\ left = 0
  /\ read_len = 0
  /\ todo = <<>>
  /\ qs = <<>>
  /\ updated = FALSE
  /\ call_site = 0
  /\ ret = Running
  /\ walk = NoWalk
  /\ parent_diff = {}
  /\ m_lock = "free"
  /\ m_pending_ops = 0
  /\ m_return_value = 0
  /\ m_next_request = 0
  /\ m_waiting_request = 0
  /\ m_request_diffs = << >>
  /\ diffs = <<>>
  /\ cb = <<>>
  /\ diff_object = <<>>
  /\ sent = {}
  /\ hist = HistInit
  /\ stack = <<>>

\* a DiffIterate constructed with a callback of the caller
InitState(names, snapsets, heads, offsets, lengths, wholes, features, invalids, parents, opss) ==
  InitCallback(names, snapsets, heads, offsets, lengths, wholes, features,
               invalids, parents, opss, {"user"}, ParentImages)

AllSnapIds == (1 .. MaxSnapId) \cup {CEPH_NOSNAP}


(* ------------------------ execute(): resolution ----------------------- *)

\* return <v> at line <line>
Return(v, line) ==
  /\ ret' = v
  /\ pc' = "done"
  /\ hist' = [hist EXCEPT !.ret_line = line]

\* ResolveCheck with the invalid-range test ahead of the equality test
ResolveCheckRangeFirst(from, end) ==
  IF from = CEPH_NOSNAP THEN 287
  ELSE IF from >= end THEN 294
  ELSE IF from = end THEN 291
  ELSE 0

\* ResolveCheck with the equality test ahead of the not-found test
ResolveCheckEqualFirst(from, end) ==
  IF from = end THEN 291
  ELSE IF from = CEPH_NOSNAP THEN 287
  ELSE IF from >= end THEN 294
  ELSE 0

\* ResolveCheck without the invalid-range test
ResolveCheckNoRange(from, end) ==
  IF from = CEPH_NOSNAP THEN 287
  ELSE IF from = end THEN 291
  ELSE 0

\* lines 286-295: the return statement taken, 0 when none is
ResolveCheck(from, end) ==
  IF from = CEPH_NOSNAP THEN 287
  ELSE IF from = end THEN 291
  ELSE IF from >= end THEN 294
  ELSE 0

\* lines 266-295
Resolve ==
  /\ pc = "resolve"
  /\ LET from == IF m_from_snap_name # 0
                 THEN get_snap_id(m_from_snap_name, snaps) ELSE 0
         end  == snap_id
         line == ResolveCheck(from, end)
     IN /\ from_snap_id' = from
        /\ end_snap_id' = end
        /\ IF line = 287 THEN Return(-ENOENT, 287)
           ELSE IF line = 291 THEN Return(0, 291)
           ELSE IF line = 294 THEN Return(-EINVAL, 294)
           ELSE /\ pc' = "fastdiff"
                /\ UNCHANGED << ret, hist >>
  /\ UNCHANGED << allocVars, overlap_step, stack, inputVars, updated, r, fast_diff_enabled, object_diff_state,
                  loopVars, walk, ctxVars >>

(* --------------------- diff_object_map(): the walk -------------------- *)

\* the values of an entry of a BitVector<2>
ObjectStates == 0 .. 3

RECURSIVE SeqsUpTo(_, _)
SeqsUpTo(S, n) ==
  IF n = 0 THEN { <<>> }
  ELSE LET shorter == SeqsUpTo(S, n - 1)
       IN shorter \cup { Append(q, x) : q \in {t \in shorter : Len(t) = n - 1},
                                        x \in S }

\* the object maps object_map_load can return
ObjectMaps == SeqsUpTo(ObjectStates, MaxObjs)


\* BitVector<2>::resize(n): truncate, or extend with zeroes
Resize(bv, n) == [i \in 1 .. n |-> IF i <= Len(bv) THEN bv[i] ELSE 0]

\* lines 426-436 taking the head for the successor of every snapshot
NextSnapIdHead(current) == CEPH_NOSNAP

\* snap_info.find(current), ++snap_it (lines 426-436)
NextSnapId(current) ==
  IF \E s \in snaps : s > current
  THEN SetMin({s \in snaps : s > current})
  ELSE CEPH_NOSNAP

\* the overlap loop writing OBJECT_DIFF_STATE_NONE where lines 476-484 write
\* nothing
DiffOverlapWritesNone(ods, prev, map) ==
  LET overlap == Min(Len(map), Len(prev))
  IN [i \in 1 .. Len(ods) |->
        IF i > overlap THEN ods[i]
        ELSE IF map[i] = OBJECT_NONEXISTENT
             THEN IF prev[i] # OBJECT_NONEXISTENT
                  THEN OBJECT_DIFF_STATE_HOLE ELSE OBJECT_DIFF_STATE_NONE
        ELSE IF \/ map[i] = OBJECT_EXISTS
                \/ /\ prev[i] # map[i]
                   /\ ~(prev[i] = OBJECT_EXISTS /\ map[i] = OBJECT_EXISTS_CLEAN)
             THEN OBJECT_DIFF_STATE_UPDATED
        ELSE OBJECT_DIFF_STATE_NONE]

\* the overlap loop without the write of line 476
DiffOverlapNoHole(ods, prev, map) ==
  LET overlap == Min(Len(map), Len(prev))
  IN [i \in 1 .. Len(ods) |->
        IF i > overlap THEN ods[i]
        ELSE IF map[i] = OBJECT_NONEXISTENT THEN ods[i]
        ELSE IF \/ map[i] = OBJECT_EXISTS
                \/ /\ prev[i] # map[i]
                   /\ ~(prev[i] = OBJECT_EXISTS /\ map[i] = OBJECT_EXISTS_CLEAN)
             THEN OBJECT_DIFF_STATE_UPDATED
        ELSE ods[i]]

\* the overlap loop without the exception for an object that went from
\* OBJECT_EXISTS to OBJECT_EXISTS_CLEAN
DiffOverlapNoCleanException(ods, prev, map) ==
  LET overlap == Min(Len(map), Len(prev))
  IN [i \in 1 .. Len(ods) |->
        IF i > overlap THEN ods[i]
        ELSE IF map[i] = OBJECT_NONEXISTENT
             THEN IF prev[i] # OBJECT_NONEXISTENT
                  THEN OBJECT_DIFF_STATE_HOLE ELSE ods[i]
        ELSE IF map[i] = OBJECT_EXISTS \/ prev[i] # map[i]
             THEN OBJECT_DIFF_STATE_UPDATED
        ELSE ods[i]]

\* lines 471-486: the indices both maps have; index i of the code is i + 1
DiffOverlap(ods, prev, map) ==
  LET overlap == Min(Len(map), Len(prev))
  IN [i \in 1 .. Len(ods) |->
        IF i > overlap THEN ods[i]
        ELSE IF map[i] = OBJECT_NONEXISTENT
             THEN IF prev[i] # OBJECT_NONEXISTENT
                  THEN OBJECT_DIFF_STATE_HOLE ELSE ods[i]
        ELSE IF \/ map[i] = OBJECT_EXISTS
                \/ /\ prev[i] # map[i]
                   /\ ~(prev[i] = OBJECT_EXISTS /\ map[i] = OBJECT_EXISTS_CLEAN)
             THEN OBJECT_DIFF_STATE_UPDATED
        ELSE ods[i]]

\* the overlap loop run on its own on the maps and the object_diff_state
\* of overlap_step
ApplyDiffOverlap ==
  /\ ~overlap_step.applied
  /\ overlap_step' =
       [overlap_step EXCEPT
          !.applied = TRUE,
          !.after = DiffOverlap(overlap_step.before,
                                overlap_step.prev_object_map,
                                overlap_step.object_map)]
  /\ UNCHANGED << diffVars, allocVars >>

\* lines 489-501 without the test of diff_from_start and
\* prev_object_map_valid
DiffResizeAlways(ods, prev, map, diff_from_start, prev_valid) ==
  LET overlap == Min(Len(map), Len(prev))
      resized == Resize(ods, Len(map))
  IN IF Len(map) > Len(prev)
     THEN [i \in 1 .. Len(map) |->
             IF i <= overlap THEN resized[i]
             ELSE IF map[i] = OBJECT_NONEXISTENT
                  THEN OBJECT_DIFF_STATE_NONE
                  ELSE OBJECT_DIFF_STATE_UPDATED]
     ELSE resized

\* lines 489-501: resize, then the indices only the current map has
DiffResize(ods, prev, map, diff_from_start, prev_valid) ==
  LET overlap == Min(Len(map), Len(prev))
      resized == Resize(ods, Len(map))
  IN IF Len(map) > Len(prev) /\ (diff_from_start \/ prev_valid)
     THEN [i \in 1 .. Len(map) |->
             IF i <= overlap THEN resized[i]
             ELSE IF map[i] = OBJECT_NONEXISTENT
                  THEN OBJECT_DIFF_STATE_NONE
                  ELSE OBJECT_DIFF_STATE_UPDATED]
     ELSE resized

\* lines 297-311 up to the call, and lines 403-422 of diff_object_map
FastDiffBegin ==
  /\ pc = "fastdiff"
  /\ IF m_whole_object /\ fast_diff_feature
     THEN /\ pc' = "walk"
          /\ walk' = [active          |-> TRUE,
                      diff_from_start |-> (from_snap_id = 0),
                      from_snap_id    |->
                        IF from_snap_id = 0
                        THEN (IF snaps # {} THEN SetMin(snaps)
                              ELSE CEPH_NOSNAP)
                        ELSE from_snap_id,
                      current_snap_id |->
                        IF from_snap_id = 0
                        THEN (IF snaps # {} THEN SetMin(snaps)
                              ELSE CEPH_NOSNAP)
                        ELSE from_snap_id,
                      next_snap_id    |-> end_snap_id,
                      prev_object_map |-> <<>>,
                      prev_object_map_valid |-> FALSE,
                      current_size    |-> 0,
                      object_map      |-> <<>>,
                      \* history of this call
                      flagged         |-> FALSE,
                      classified      |-> {}]
          /\ object_diff_state' = <<>>
          /\ hist' = [hist EXCEPT !.fast_tried = TRUE]
     ELSE /\ pc' = "parent"
          /\ UNCHANGED << walk, object_diff_state, hist >>
  /\ UNCHANGED << allocVars, overlap_step, stack, inputVars, updated, from_snap_id, end_snap_id, r, fast_diff_enabled,
                  loopVars, ret, ctxVars >>

\* diff_object_map returns <v> to line 303; lines 304-311. A failed call
\* leaves in object_diff_state what its earlier iterations wrote.
WalkReturn(v) ==
  /\ r' = v
  /\ fast_diff_enabled' = (v >= 0)
  /\ walk' = NoWalk
  /\ pc' = "parent"
  /\ hist' = [hist EXCEPT !.r_from = "diff_object_map"]

\* lines 445-449 after get_flags(from_snap_id, &flags) has returned 0,
\* whatever the snapshot <current> whose object map is about to be loaded
FlagsInvalid(from, current) == from \in fast_diff_invalid

\* line 463 accepting an object map that is too small
MapTooSmallNever(size, num_objs) == FALSE

\* line 463: object_map.size() < num_objs
MapTooSmall(size, num_objs) == size < num_objs

\* the indices of <ods> that are classified
Classified(ods) == { i \in 1 .. Len(ods) : ods[i] # OBJECT_DIFF_STATE_NONE }

\* one iteration of the loop of lines 423-510; the break of line 504 leaves
\* the loop with the locals of this iteration
WalkStep ==
  /\ pc = "walk"
  /\ LET current == walk.current_snap_id
         next    == IF current # CEPH_NOSNAP THEN NextSnapId(current)
                    ELSE walk.next_snap_id
     IN \* lines 440-444: get_flags fails
        \/ \E flags_r \in { x \in FlagsRets : x < 0 } :
             /\ WalkReturn(flags_r)
             /\ UNCHANGED object_diff_state
        \* get_flags returns 0
        \/ IF FlagsInvalid(walk.from_snap_id, current)
           THEN /\ WalkReturn(-EINVAL)
                /\ UNCHANGED object_diff_state
           ELSE \/ \E load_r \in { x \in LoadRets : x < 0 } :
                     /\ WalkReturn(load_r)
                     /\ UNCHANGED object_diff_state
                \/ \E current_size \in ImageSizes, loaded \in ObjectMaps :
                     LET num_objs == get_num_objects(current_size)
                         map  == Resize(loaded, num_objs)
                         ods1 == DiffOverlap(object_diff_state,
                                             walk.prev_object_map, map)
                         ods2 == DiffResize(ods1, walk.prev_object_map, map,
                                            walk.diff_from_start,
                                            walk.prev_object_map_valid)
                         done == [walk EXCEPT
                                    !.next_snap_id = next,
                                    !.current_size = current_size,
                                    !.object_map = map,
                                    !.flagged = @ \/ current \in fast_diff_invalid,
                                    !.classified = @ \cup Classified(ods2)]
                     IN /\ IF MapTooSmall(Len(loaded), num_objs)
                           THEN /\ WalkReturn(-EINVAL)
                                /\ UNCHANGED object_diff_state
                           ELSE /\ object_diff_state' = ods2
                                /\ UNCHANGED << r, fast_diff_enabled, hist >>
                                /\ IF current = next \/ next > end_snap_id
                                   THEN \* the previous map is dead after the
                                        \* loop
                                        /\ walk' =
                                             [done EXCEPT
                                                !.prev_object_map = <<>>,
                                                !.prev_object_map_valid = FALSE]
                                        /\ pc' = "walk_break"
                                   ELSE /\ walk' =
                                             [done EXCEPT
                                                !.current_snap_id = next,
                                                !.prev_object_map = map,
                                                !.prev_object_map_valid = TRUE]
                                        /\ UNCHANGED pc
  /\ UNCHANGED << allocVars, overlap_step, stack, inputVars, updated, from_snap_id, end_snap_id, loopVars, ret,
                  ctxVars >>

\* lines 461-469 run on their own on the object map and the size of
\* overlap_step
ApplySizeCheck ==
  /\ ~overlap_step.applied
  /\ LET num_objs == get_num_objects(overlap_step.current_size)
     IN overlap_step' =
          IF MapTooSmall(Len(overlap_step.loaded), num_objs)
          THEN [overlap_step EXCEPT !.applied = TRUE, !.r = -EINVAL]
          ELSE [overlap_step EXCEPT
                  !.applied = TRUE,
                  !.r = 0,
                  !.object_map = Resize(overlap_step.loaded, num_objs)]
  /\ UNCHANGED << diffVars, allocVars >>

\* line 511 after the break: diff_object_map returns 0
WalkBreak ==
  /\ pc = "walk_break"
  /\ WalkReturn(0)
  /\ UNCHANGED << allocVars, overlap_step, stack, inputVars, updated, from_snap_id, end_snap_id, loopVars, ret,
                  ctxVars, object_diff_state >>

(* ------------------------ execute(): parent diff ---------------------- *)

\* line 328 left out: r keeps the value diff_object_map returned
NoParentDiffKeepsR == r

\* line 328: the value of r before line 329
NoParentDiffR == 0

\* line 329: the parent diff is run
ParentDiffRuns(overlap) == parent /\ overlap > 0

\* lines 326-327: the overlap with the parent, and without a parent
\* end_size, the size of the image at the end snapshot
ParentOverlaps == IF parent THEN { parent_ctx.overlap } ELSE ImageSizes

\* the history after lines 326-328 have read <overlap>
ParentRead(h, overlap) ==
  [h EXCEPT !.overlap = overlap,
            !.r_from = "line328",
            !.parent_r = 0]

\* the history after line 335 has called the parent diff over <overlap>
\* bytes at 0
ParentCalled(h, overlap) ==
  [ParentRead(h, overlap) EXCEPT !.parent_runs = @ + 1,
                                 !.parent_range = << 0, overlap >>,
                                 !.parent_exit = "running"]

\* the history after the parent diff has returned <pr> to line 335
ParentReturned(h, pr) ==
  [h EXCEPT !.r_from = "parent",
            !.parent_r = pr,
            !.parent_exit = "returned"]

\* execute() at line 335 with <overlap> read, while diff_parent.execute()
\* runs
Frame(overlap) ==
  [m_from_snap_name          |-> m_from_snap_name,
   m_offset                  |-> m_offset,
   m_length                  |-> m_length,
   m_whole_object            |-> m_whole_object,
   m_include_parent          |-> m_include_parent,
   m_callback                |-> m_callback,
   snaps                     |-> snaps,
   snap_id                   |-> snap_id,
   fast_diff_feature         |-> fast_diff_feature,
   fast_diff_invalid         |-> fast_diff_invalid,
   parent                    |-> parent,
   parent_ctx                |-> parent_ctx,
   concurrent_management_ops |-> concurrent_management_ops,
   from_snap_id              |-> from_snap_id,
   end_snap_id               |-> end_snap_id,
   r                         |-> NoParentDiffR,
   fast_diff_enabled         |-> fast_diff_enabled,
   object_diff_state         |-> object_diff_state,
   off                       |-> off,
   left                      |-> left,
   read_len                  |-> read_len,
   todo                      |-> todo,
   qs                        |-> qs,
   updated                   |-> updated,
   call_site                 |-> call_site,
   ret                       |-> ret,
   walk                      |-> walk,
   parent_diff               |-> parent_diff,
   m_lock                    |-> m_lock,
   m_pending_ops             |-> m_pending_ops,
   m_return_value            |-> m_return_value,
   m_next_request            |-> m_next_request,
   m_waiting_request         |-> m_waiting_request,
   m_request_diffs           |-> m_request_diffs,
   diffs                     |-> diffs,
   cb                        |-> cb,
   diff_object               |-> diff_object,
   sent                      |-> sent,
   hist                      |-> ParentCalled(hist, overlap)]

\* lines 331-335: diff_parent is constructed on the parent image, from
\* NULL, over <overlap> bytes at 0, with the caller's include_parent and
\* whole_object and simple_diff_cb, and its execute() is entered
ParentCall(overlap) ==
  /\ stack' = << Frame(overlap) >> \o stack
  /\ m_from_snap_name' = 0
  /\ m_offset' = 0
  /\ m_length' = overlap
  /\ m_callback' = "simple_diff_cb"
  /\ snaps' = parent_ctx.snaps
  /\ snap_id' = parent_ctx.snap_id
  /\ fast_diff_feature' = parent_ctx.fast_diff_feature
  /\ fast_diff_invalid' = parent_ctx.fast_diff_invalid
  /\ parent' = parent_ctx.parent
  /\ parent_ctx' = parent_ctx.parent_ctx
  /\ concurrent_management_ops' = parent_ctx.concurrent_management_ops
  /\ pc' = "resolve"
  /\ from_snap_id' = 0
  /\ end_snap_id' = 0
  /\ r' = Uninit
  /\ fast_diff_enabled' = FALSE
  /\ object_diff_state' = <<>>
  /\ off' = 0
  /\ left' = 0
  /\ read_len' = 0
  /\ todo' = <<>>
  /\ qs' = <<>>
  /\ updated' = FALSE
  /\ call_site' = 0
  /\ ret' = Running
  /\ walk' = NoWalk
  /\ parent_diff' = {}
  /\ m_lock' = "free"
  /\ m_pending_ops' = 0
  /\ m_return_value' = 0
  /\ m_next_request' = 0
  /\ m_waiting_request' = 0
  /\ m_request_diffs' = << >>
  /\ diffs' = <<>>
  /\ cb' = <<>>
  /\ diff_object' = <<>>
  /\ sent' = {}
  /\ hist' = HistInit
  /\ UNCHANGED << m_whole_object, m_include_parent >>

\* lines 313-335 and, when the parent diff is not run, lines 337-344
ParentDiff ==
  /\ pc = "parent"
  /\ IF m_include_parent /\ from_snap_id = 0
     THEN \E overlap \in ParentOverlaps :
            IF ParentDiffRuns(overlap)
            THEN ParentCall(overlap)
            ELSE /\ r' = NoParentDiffR
                 /\ IF NoParentDiffR < 0
                    THEN /\ ret' = NoParentDiffR
                         /\ pc' = "done"
                         /\ hist' = [hist EXCEPT !.ret_line = 338]
                         /\ UNCHANGED << off, left >>
                    ELSE /\ pc' = "while"
                         /\ off' = m_offset
                         /\ left' = m_length
                         /\ hist' = ParentRead(hist, overlap)
                         /\ UNCHANGED ret
                 /\ UNCHANGED << stack, inputVars, from_snap_id,
                                 end_snap_id, fast_diff_enabled,
                                 object_diff_state, read_len, todo, qs,
                                 updated, call_site, walk, ctxVars >>
     ELSE /\ pc' = "while"
          /\ off' = m_offset
          /\ left' = m_length
          /\ UNCHANGED << stack, inputVars, from_snap_id, end_snap_id, r,
                          fast_diff_enabled, object_diff_state, read_len,
                          todo, qs, updated, call_site, ret, walk, ctxVars,
                          hist >>
  /\ UNCHANGED << allocVars, overlap_step >>

\* line 335, the parent diff has returned: r is what it returned,
\* parent_diff what simple_diff_cb has inserted; then lines 337-344
ParentReturn ==
  /\ pc = "done"
  /\ stack # <<>>
  /\ LET f == Head(stack)
     IN /\ stack' = Tail(stack)
        /\ m_from_snap_name' = f.m_from_snap_name
        /\ m_offset' = f.m_offset
        /\ m_length' = f.m_length
        /\ m_whole_object' = f.m_whole_object
        /\ m_include_parent' = f.m_include_parent
        /\ m_callback' = f.m_callback
        /\ snaps' = f.snaps
        /\ snap_id' = f.snap_id
        /\ fast_diff_feature' = f.fast_diff_feature
        /\ fast_diff_invalid' = f.fast_diff_invalid
        /\ parent' = f.parent
        /\ parent_ctx' = f.parent_ctx
        /\ concurrent_management_ops' = f.concurrent_management_ops
        /\ from_snap_id' = f.from_snap_id
        /\ end_snap_id' = f.end_snap_id
        /\ fast_diff_enabled' = f.fast_diff_enabled
        /\ object_diff_state' = f.object_diff_state
        /\ read_len' = f.read_len
        /\ todo' = f.todo
        /\ qs' = f.qs
        /\ updated' = f.updated
        /\ call_site' = f.call_site
        /\ walk' = f.walk
        /\ parent_diff' = f.parent_diff
        /\ m_lock' = f.m_lock
        /\ m_pending_ops' = f.m_pending_ops
        /\ m_return_value' = f.m_return_value
        /\ m_next_request' = f.m_next_request
        /\ m_waiting_request' = f.m_waiting_request
        /\ m_request_diffs' = f.m_request_diffs
        /\ diffs' = f.diffs
        /\ cb' = f.cb
        /\ diff_object' = f.diff_object
        /\ sent' = f.sent
        /\ r' = ret
        /\ IF ret < 0
           THEN /\ ret' = ret
                /\ pc' = "done"
                /\ off' = f.off
                /\ left' = f.left
                /\ hist' = [ParentReturned(f.hist, ret) EXCEPT
                              !.ret_line = 338]
           ELSE /\ ret' = f.ret
                /\ pc' = "while"
                /\ off' = f.m_offset
                /\ left' = f.m_length
                /\ hist' = ParentReturned(f.hist, ret)
  /\ UNCHANGED << allocVars, overlap_step >>

(* ----------------------- execute(): the period loop ------------------- *)

\* lines 346-354: the loop test and the extents of the next period
While ==
  /\ pc = "while"
  /\ IF left > 0
     THEN LET period     == get_stripe_period
              period_off == off - (off % period)
              len        == Min(period_off + period - off, left)
          IN /\ read_len' = len
             /\ todo' = file_to_extents(off, len)
             /\ pc' = "for"
     ELSE /\ pc' = "wait_final"
          /\ UNCHANGED << read_len, todo >>
  /\ UNCHANGED << allocVars, overlap_step, stack, inputVars, updated, from_snap_id, end_snap_id, r, fast_diff_enabled,
                  object_diff_state, off, left, qs, call_site, ret, walk,
                  ctxVars, hist >>

\* lines 357-359 at the end of the period's objects, and lines 390-391
EndOfPeriod ==
  /\ pc = "for"
  /\ todo = <<>>
  /\ left' = left - read_len
  /\ off' = off + read_len
  /\ pc' = "while"
  /\ UNCHANGED << allocVars, overlap_step, stack, inputVars, updated, from_snap_id, end_snap_id, r, fast_diff_enabled,
                  object_diff_state, read_len, todo, qs, call_site, ret, walk,
                  ctxVars, hist >>
\* BitVector<2>::operator[] at lines 365-366: the entry of <object_no>; an
\* index past the end reads the two bits the buffer has at that place,
\* whatever they are
DiffStateRead(object_no) ==
  IF object_no < Len(object_diff_state)
  THEN { object_diff_state[object_no + 1] }
  ELSE ObjectStates

\* or finds that the buffer has no byte at that place: end_of_buffer is
\* thrown out of execute()
DiffStateThrows(object_no) == object_no >= Len(object_diff_state)

FastUpdatedAlways(state) == TRUE

\* lines 365-366: updated
FastUpdated(state) == state = OBJECT_DIFF_STATE_UPDATED

\* lines 362-366: the fast path reads the object's classification
FastObject ==
  /\ pc = "for"
  /\ todo # <<>>
  /\ fast_diff_enabled
  /\ LET p         == Head(todo)
         object_no == Head(p.extents).objectno
     IN \/ \E state \in DiffStateRead(object_no) :
             IF state # OBJECT_DIFF_STATE_NONE
             THEN /\ qs' = p.extents
                  /\ updated' = FastUpdated(state)
                  /\ pc' = "fast_cb"
                  /\ hist' = [hist EXCEPT !.read_state = state,
                                           !.fast_extents = @ + Len(p.extents)]
                  /\ UNCHANGED todo
             ELSE /\ todo' = Tail(todo)
                  /\ UNCHANGED << qs, updated, pc, hist >>
        \/ /\ DiffStateThrows(object_no)
           /\ pc' = "throw"
           /\ UNCHANGED << qs, updated, todo, hist >>
  /\ UNCHANGED << allocVars, overlap_step, stack, inputVars, from_snap_id, end_snap_id, r, fast_diff_enabled,
                  object_diff_state, off, left, read_len, call_site, ret,
                  walk, ctxVars >>

\* lines 365-366 reporting every classified object as existing

\* the history after the fast path has invoked the callback with the record
\* <rec> of object <object_no> and the callback has returned <rv>
FastInvoked(h, object_no, rec, rv) ==
  [Returned(Invoked(h, rec), rv) EXCEPT !.r_from = "callback",
                                        !.fast_object = object_no,
                                        !.fast_state = h.read_state,
                                        !.fast_exists = rec[3]]

\* lines 367-373: the callback for the next extent of the object
FastCallback ==
  /\ pc = "fast_cb"
  /\ LET p         == Head(todo)
         object_no == Head(p.extents).objectno
         q         == Head(qs)
         rec       == << off + q.offset, q.length, updated >>
     IN IF AssertFails(rec)
        THEN /\ pc' = "abort"
             /\ hist' = [Invoked(hist, rec) EXCEPT
                           !.fast_object = object_no,
                           !.fast_state = hist.read_state,
                           !.fast_exists = rec[3]]
             /\ UNCHANGED << r, ret, qs, todo, stack >>
        ELSE \E rv \in CallbackReturns :
          /\ r' = rv
          /\ IF rv < 0
             THEN /\ ret' = rv
                  /\ pc' = "done"
                  /\ hist' = [FastInvoked(hist, object_no, rec, rv) EXCEPT
                                !.ret_line = 371]
                  /\ UNCHANGED << qs, todo, stack >>
             ELSE /\ hist' = Inserted(FastInvoked(hist, object_no, rec, rv),
                                      rec)
                  /\ stack' = InsertedArg(rec)
                  /\ UNCHANGED ret
                  /\ IF Tail(qs) = <<>>
                     THEN /\ qs' = <<>>
                          /\ todo' = Tail(todo)
                          /\ pc' = "for"
                     ELSE /\ qs' = Tail(qs)
                          /\ UNCHANGED << todo, pc >>
  /\ UNCHANGED << allocVars, overlap_step, inputVars, updated, from_snap_id, end_snap_id, fast_diff_enabled,
                  object_diff_state, off, left, read_len, call_site, walk,
                  ctxVars >>

(* ------------------------------ DiffContext --------------------------- *)

\* start_op waiting one operation too late
StartOpMustWaitLate == m_pending_ops > concurrent_management_ops

\* line 91: the condition start_op waits on
StartOpMustWait == m_pending_ops >= concurrent_management_ops

\* finish_op without the test that no error is recorded yet
FinishOpOverwrites(rv) == IF rv < 0 THEN rv ELSE m_return_value

\* lines 102-104: m_return_value after finish_op has seen status <rv>
FinishOpReturnValue(rv) ==
  IF m_return_value = 0 /\ rv < 0 THEN rv ELSE m_return_value

\* line 71 without the test that no error is recorded yet
CallbackFailsOverwrites(rv) == rv < 0

\* line 71: the callback's status <rv> becomes the sticky error and ends
\* invoke_callback
CallbackFails(rv) == m_return_value = 0 /\ rv < 0

\* wait_for_ret returning with one operation still pending
WaitForRetMustWaitLate == m_pending_ops > 1

\* lines 83-85: the condition wait_for_ret waits on
WaitForRetMustWait == m_pending_ops > 0

\* finish_op without m_cond.Signal()
NotWoken(p) == p

\* line 107: m_cond.Signal() takes the driving thread out of m_cond.Wait
\* (lines 84 and 92) to test its condition again
Woken(p) ==
  CASE p = "start_wait"      -> "for"
    [] p = "wait_err_wait"   -> "wait_err"
    [] p = "wait_final_wait" -> "wait_final"
    [] OTHER                 -> p

\* lines 376-379, with start_op (lines 89-96) called by the constructor of
\* C_DiffObject (lines 129-137); while the condition of line 91 holds the
\* thread waits on m_cond with the lock released
StartOp ==
  /\ pc = "for"
  /\ todo # <<>>
  /\ ~fast_diff_enabled
  /\ m_lock = "free"
  /\ IF StartOpMustWait
     THEN /\ pc' = "start_wait"
          /\ UNCHANGED << m_pending_ops, m_next_request, diff_object, hist >>
     ELSE /\ m_pending_ops' = m_pending_ops + 1
          /\ m_next_request' = m_next_request + 1
          /\ diff_object' = [m_request_num    |-> m_next_request,
                             m_offset         |-> off,
                             m_object_extents |-> Head(todo).extents]
          /\ pc' = "send"
          /\ hist' = [hist EXCEPT
                        !.late_submits = IF m_return_value < 0 THEN @ + 1
                                         ELSE @]
  /\ UNCHANGED << allocVars, overlap_step, stack, inputVars, updated, from_snap_id, end_snap_id, r, fast_diff_enabled,
                  object_diff_state, loopVars, ret, walk, parent_diff, m_lock,
                  m_return_value, m_waiting_request, m_request_diffs, diffs,
                  cb, sent >>

\* line 380: send() hands the query to the object store
Send ==
  /\ pc = "send"
  /\ sent' = sent \cup {diff_object}
  /\ diff_object' = <<>>
  /\ call_site' = 382
  /\ pc' = "invoke"
  /\ hist' = [hist EXCEPT !.queries_sent = @ + 1]
  /\ UNCHANGED << allocVars, overlap_step, stack, inputVars, updated, from_snap_id, end_snap_id, r, fast_diff_enabled,
                  object_diff_state, off, left, read_len, todo, qs, ret, walk,
                  parent_diff, m_lock, m_pending_ops, m_return_value,
                  m_next_request, m_waiting_request, m_request_diffs, diffs,
                  cb >>

\* line 383 testing for a positive status
InvokeFailedPositive(v) == v > 0

\* line 383: the test of the status invoke_callback returned
InvokeFailed(v) == v < 0

\* invoke_callback returns <v> to execute(): the Locker releases the lock;
\* lines 382-387, or lines 399-400
InvokeReturn(v) ==
  /\ r' = v
  /\ m_lock' = "free"
  /\ IF call_site = 382
     THEN IF InvokeFailed(v)
          THEN /\ pc' = "wait_err"
               /\ UNCHANGED << todo, ret >>
               /\ hist' = [hist EXCEPT !.r_from = "invoke_callback"]
          ELSE /\ pc' = "for"
               /\ todo' = Tail(todo)
               /\ UNCHANGED ret
               /\ hist' = [hist EXCEPT !.r_from = "invoke_callback"]
     ELSE /\ pc' = "done"
          /\ ret' = v
          /\ UNCHANGED todo
          /\ hist' = [hist EXCEPT !.r_from = "invoke_callback",
                                  !.ret_line = 400]

\* lines 53-57
InvokeEnter ==
  /\ pc = "invoke"
  /\ m_lock = "free"
  /\ IF m_return_value < 0
     THEN InvokeReturn(m_return_value)
     ELSE /\ m_lock' = "driver"
          /\ pc' = "drain"
          /\ UNCHANGED << r, todo, ret, hist >>
  /\ UNCHANGED << allocVars, overlap_step, stack, inputVars, updated, from_snap_id, end_snap_id, fast_diff_enabled,
                  object_diff_state, off, left, read_len, qs, call_site, walk,
                  parent_diff, m_pending_ops, m_return_value, m_next_request,
                  m_waiting_request, m_request_diffs, diffs, cb, diff_object,
                  sent >>

\* the drain taking the first buffered request whatever its number
DrainReadyAny == DOMAIN m_request_diffs # {}

\* lines 60-61: the loop test of the drain, <it> being the first entry of
\* m_request_diffs
DrainReady ==
  /\ DOMAIN m_request_diffs # {}
  /\ SetMin(DOMAIN m_request_diffs) = m_waiting_request

\* lines 59-63, and line 78 when the loop ends
Drain ==
  /\ pc = "drain"
  /\ IF DrainReady
     THEN LET it == SetMin(DOMAIN m_request_diffs)
          IN /\ diffs' = m_request_diffs[it]
             /\ m_request_diffs' =
                  [k \in DOMAIN m_request_diffs \ {it} |-> m_request_diffs[k]]
             /\ pc' = "for_diffs"
             /\ hist' = [hist EXCEPT !.deliveries = @ + 1,
                                     !.delivering = it]
             /\ UNCHANGED << r, m_lock, todo, ret >>
     ELSE /\ InvokeReturn(0)
          /\ UNCHANGED << diffs, m_request_diffs >>
  /\ UNCHANGED << allocVars, overlap_step, stack, inputVars, updated, from_snap_id, end_snap_id, fast_diff_enabled,
                  object_diff_state, off, left, read_len, qs, call_site, walk,
                  parent_diff, m_pending_ops, m_return_value, m_next_request,
                  m_waiting_request, cb, diff_object, sent >>

\* the callback called with the lock still held
CallbackLockHeld == "driver"

\* line 65: the owner of the lock while the callback runs, after Unlock()
CallbackLock == "free"

\* lines 65-68: the next record of the request, the lock released for the
\* callback; line 76 at the end of the request's records
CallbackCall ==
  /\ pc = "for_diffs"
  /\ IF diffs = <<>>
     THEN /\ m_waiting_request' = m_waiting_request + 1
          /\ pc' = "drain"
          /\ UNCHANGED << m_lock, cb, hist >>
     ELSE /\ m_lock' = CallbackLock
          /\ cb' = Head(diffs)
          /\ pc' = "in_callback"
          /\ hist' = Invoked(hist, Head(diffs))
          /\ UNCHANGED m_waiting_request
  /\ UNCHANGED << allocVars, overlap_step, stack, inputVars, updated, from_snap_id, end_snap_id, r, fast_diff_enabled,
                  object_diff_state, loopVars, ret, walk, parent_diff,
                  m_pending_ops, m_return_value, m_next_request,
                  m_request_diffs, diffs, diff_object, sent >>

\* lines 67-75: the callback returns, the lock is taken again
CallbackReturn ==
  /\ pc = "in_callback"
  /\ m_lock = "free"
  /\ IF AssertFails(cb)
     THEN /\ pc' = "abort"
          /\ UNCHANGED << cb, m_return_value, r, m_lock, ret, hist, diffs,
                          stack >>
     ELSE \E rv \in CallbackReturns :
       /\ cb' = <<>>
       /\ IF CallbackFails(rv)
          THEN /\ m_return_value' = rv
               /\ r' = rv
               /\ m_lock' = "free"
               /\ IF call_site = 382
                  THEN /\ pc' = "wait_err"
                       /\ UNCHANGED ret
                       /\ hist' = [Seen(Returned(hist, rv), rv) EXCEPT
                                     !.r_from = "invoke_callback"]
                  ELSE /\ pc' = "done"
                       /\ ret' = rv
                       /\ hist' = [Seen(Returned(hist, rv), rv) EXCEPT
                                     !.r_from = "invoke_callback",
                                     !.ret_line = 400]
               /\ UNCHANGED << diffs, stack >>
          ELSE /\ m_lock' = "driver"
               /\ diffs' = Tail(diffs)
               /\ pc' = "for_diffs"
               /\ hist' = Inserted(Seen(Returned(hist, rv), rv), cb)
               /\ stack' = InsertedArg(cb)
               /\ UNCHANGED << m_return_value, r, ret >>
  /\ UNCHANGED << allocVars, overlap_step, inputVars, updated, from_snap_id, end_snap_id, fast_diff_enabled,
                  object_diff_state, loopVars, walk, parent_diff,
                  m_pending_ops, m_next_request, m_waiting_request,
                  m_request_diffs, diff_object, sent >>

\* lines 384-385: wait_for_ret (lines 81-87), then return r
WaitErr ==
  /\ pc = "wait_err"
  /\ m_lock = "free"
  /\ IF WaitForRetMustWait
     THEN /\ pc' = "wait_err_wait"
          /\ UNCHANGED << ret, hist >>
     ELSE Return(r, 385)
  /\ UNCHANGED << allocVars, overlap_step, stack, inputVars, updated, from_snap_id, end_snap_id, r, fast_diff_enabled,
                  object_diff_state, loopVars, walk, ctxVars >>

\* lines 394-399: wait_for_ret, return its failure or call invoke_callback
WaitFinal ==
  /\ pc = "wait_final"
  /\ m_lock = "free"
  /\ IF WaitForRetMustWait
     THEN /\ pc' = "wait_final_wait"
          /\ UNCHANGED << r, ret, call_site, hist >>
     ELSE /\ r' = m_return_value
          /\ IF m_return_value < 0
             THEN /\ ret' = m_return_value
                  /\ pc' = "done"
                  /\ hist' = [hist EXCEPT !.r_from = "wait_for_ret",
                                          !.ret_line = 396]
                  /\ UNCHANGED call_site
             ELSE /\ call_site' = 399
                  /\ pc' = "invoke"
                  /\ hist' = [hist EXCEPT !.r_from = "wait_for_ret"]
                  /\ UNCHANGED ret
  /\ UNCHANGED << allocVars, overlap_step, stack, inputVars, updated, from_snap_id, end_snap_id, fast_diff_enabled,
                  object_diff_state, off, left, read_len, todo, qs, walk,
                  ctxVars >>

(* ------------------------------ C_DiffObject -------------------------- *)

\* calc_snap_set_diff can report any set of bytes of the object as changed
SnapSetDiffs == SUBSET (0 .. (ObjSize - 1))

\* lines 213-234 emitting the whole overlap of a buffer extent as one record
RECURSIVE BufferExtentDiffsOnePiece(_, _, _, _, _)
BufferExtentDiffsOnePiece(m_off, bes, opos, diff, end_exists) ==
  IF bes = <<>> THEN <<>>
  ELSE LET be      == Head(bes)
           overlap == IntervalInsert(opos, be[2]) \cap diff
           first   == IF overlap = {} THEN <<>>
                      ELSE << << m_off + be[1] + (SetMin(overlap) - opos),
                                 Cardinality(overlap), end_exists >> >>
       IN first \o BufferExtentDiffsOnePiece(m_off, Tail(bes), opos + be[2],
                                             diff, end_exists)

\* lines 213-234: the records of the buffer extents <bes> of one object
\* extent, <opos> the object offset the next buffer extent starts at
RECURSIVE BufferExtentDiffs(_, _, _, _, _)
BufferExtentDiffs(m_off, bes, opos, diff, end_exists) ==
  IF bes = <<>> THEN <<>>
  ELSE LET be      == Head(bes)
           overlap == IntervalInsert(opos, be[2]) \cap diff
           runs    == IntervalRuns(overlap)
       IN [i \in 1 .. Len(runs) |->
             << m_off + be[1] + (runs[i][1] - opos), runs[i][2], end_exists >>]
          \o BufferExtentDiffs(m_off, Tail(bes), opos + be[2], diff,
                               end_exists)

\* lines 208-236
RECURSIVE ExtentDiffs(_, _, _, _)
ExtentDiffs(m_off, exts, diff, end_exists) ==
  IF exts = <<>> THEN <<>>
  ELSE BufferExtentDiffs(m_off, Head(exts).buffer_extents, Head(exts).offset,
                         diff, end_exists)
       \o ExtentDiffs(m_off, Tail(exts), diff, end_exists)

\* lines 186-237, <diff> and <end_exists> the results of calc_snap_set_diff
compute_diffs(q, diff, end_exists) ==
  IF diff = {} THEN <<>>
  ELSE IF m_whole_object
  THEN [i \in 1 .. Len(q.m_object_extents) |->
          << q.m_offset + q.m_object_extents[i].offset,
             q.m_object_extents[i].length, end_exists >>]
  ELSE ExtentDiffs(q.m_offset, q.m_object_extents, diff, end_exists)

\* lines 245-258
RECURSIVE BufferExtentParent(_, _)
BufferExtentParent(m_off, bes) ==
  IF bes = <<>> THEN <<>>
  ELSE LET be   == Head(bes)
           o    == IntervalInsert(m_off + be[1], be[2]) \cap parent_diff
           runs == IntervalRuns(o)
       IN [i \in 1 .. Len(runs) |-> << runs[i][1], runs[i][2], TRUE >>]
          \o BufferExtentParent(m_off, Tail(bes))

RECURSIVE ExtentParent(_, _)
ExtentParent(m_off, exts) ==
  IF exts = <<>> THEN <<>>
  ELSE BufferExtentParent(m_off, Head(exts).buffer_extents)
       \o ExtentParent(m_off, Tail(exts))

\* lines 239-261
compute_parent_overlap(q) ==
  IF from_snap_id = 0 /\ parent_diff # {}
  THEN ExtentParent(q.m_offset, q.m_object_extents)
  ELSE <<>>

\* finish_op storing no entry for a request without records
FinishOpDiffsSkipEmpty(request_num, ds) ==
  IF ds = <<>> THEN m_request_diffs
  ELSE [k \in DOMAIN m_request_diffs \cup {request_num} |->
          IF k = request_num THEN ds ELSE m_request_diffs[k]]

\* line 100: m_request_diffs[request_num] = diffs
FinishOpDiffs(request_num, ds) ==
  [k \in DOMAIN m_request_diffs \cup {request_num} |->
     IF k = request_num THEN ds ELSE m_request_diffs[k]]

\* compute_diffs run on its own on the query, the diff and end_exists of
\* overlap_step
ApplyComputeDiffs ==
  /\ ~overlap_step.applied
  /\ overlap_step' =
       [overlap_step EXCEPT
          !.applied = TRUE,
          !.diffs = compute_diffs(overlap_step.q, overlap_step.diff,
                                  overlap_step.end_exists)]
  /\ UNCHANGED << diffVars, allocVars >>

\* lines 98-108
finish_op(request_num, rv, ds) ==
  /\ m_request_diffs' = FinishOpDiffs(request_num, ds)
  /\ m_return_value' = FinishOpReturnValue(rv)
  /\ m_pending_ops' = m_pending_ops - 1
  /\ pc' = Woken(pc)
  /\ hist' = [Seen(hist, rv) EXCEPT !.stored = @ + Len(ds)]

\* lines 153-155: the status finish() goes on with
FinishR(rr, m_snap_ret) == IF rr = 0 /\ m_snap_ret < 0 THEN m_snap_ret ELSE rr

\* lines 157-169: the records finish() hands to finish_op
FinishDiffs(q, r1, diff, end_exists) ==
  IF r1 = 0 THEN compute_diffs(q, diff, end_exists)
  ELSE IF r1 = -ENOENT THEN compute_parent_overlap(q)
  ELSE <<>>

\* line 164 left out: object-not-found handed to finish_op as it came
FinishStatusKeepsNotFound(r1) == r1

\* lines 158-171: the status finish() hands to finish_op
FinishStatus(r1) == IF r1 = -ENOENT THEN 0 ELSE r1

\* the completion of the query of <q> can run: finish_op takes m_lock
\* (line 99)
FinishEnabled(q) ==
  /\ q \in sent
  /\ m_lock = "free"
  /\ pc # "abort"

\* lines 151-172 for the completion status <rr>, the list_snaps status
\* <m_snap_ret> and the results <diff>, <end_exists> of calc_snap_set_diff
FinishWith(q, rr, m_snap_ret, diff, end_exists) ==
  /\ LET r1 == FinishR(rr, m_snap_ret)
     IN finish_op(q.m_request_num, FinishStatus(r1),
                  FinishDiffs(q, r1, diff, end_exists))
  /\ sent' = sent \ {q}
  /\ UNCHANGED << allocVars, stack, inputVars, updated, from_snap_id, end_snap_id, r,
                  fast_diff_enabled, object_diff_state, loopVars, ret, walk,
                  parent_diff, m_lock, m_next_request, m_waiting_request,
                  diffs, cb, diff_object >>

\* what a completion can be given: the completion status, the list_snaps
\* status and the results of calc_snap_set_diff, which finish() reads only
\* when both statuses are 0 (line 158)
FinishInputs ==
  { << rr, m_snap_ret, diff, end_exists >> :
      rr \in QueryRets, m_snap_ret \in SnapRets, diff \in SnapSetDiffs,
      end_exists \in BOOLEAN }

\* the same, calc_snap_set_diff left out where finish() does not call it
FinishCases ==
  { c \in FinishInputs :
      FinishR(c[1], c[2]) # 0 => (c[3] = {} /\ ~c[4]) }

\* lines 151-172: the completion of the query of <q>, on a thread of the
\* object store client
Finish(q) ==
  /\ FinishEnabled(q)
  /\ \E c \in FinishCases : FinishWith(q, c[1], c[2], c[3], c[4])
  /\ UNCHANGED overlap_step

\* the same completion, overlap_step keeping what finish() was given and
\* what it left
FinishRecorded ==
  \E q \in sent :
    /\ FinishEnabled(q)
    /\ \E c \in FinishCases :
         /\ FinishWith(q, c[1], c[2], c[3], c[4])
         /\ overlap_step' =
              [applied     |-> TRUE,
               q           |-> q,
               r           |-> FinishR(c[1], c[2]),
               sticky_from |-> m_return_value,
               sticky      |-> m_return_value',
               stored      |-> m_request_diffs']

(* ------------------------------ preallocator -------------------------- *)

\* index_t is boost::uint_value_t<N>::least, 8 bits wide for N below 256
IndexMod == 256

\* size_type and pointers are unsigned and wrap; the model gives them 16
\* bits, and T the size 1, so that p + n is address arithmetic
SizeMod == IndexMod * IndexMod

\* the largest size_type value
SIZE_MAX == SizeMod - 1

\* the address of the inline storage
storage == SizeMod \div 2

\* preallocator.h lines 39-41
storage_at(i) == (storage + i) % SizeMod

\* the addresses of the block of <n> elements at <p>; a block of no elements
\* still occupies the heap
Block(p, n) == p .. (p + (IF n = 0 THEN 0 ELSE n - 1))

\* where the heap of operator new starts: away from the preallocator
HeapBase == storage \div 2

\* the memory std::allocator takes its blocks from: the heap of operator
\* new, away from the preallocator, here in slots of MaxN + 2 addresses,
\* one for each block the base allocator can hold
HeapAddrs == HeapBase .. (HeapBase + MaxBase * (MaxN + 2) - 1)

\* the addresses of the heap a block can start at
BlockStarts == { p \in HeapAddrs : (p - HeapBase) % (MaxN + 2) = 0 }

\* the blocks the base allocator holds: allocated more often than
\* deallocated
BaseLive ==
  { b \in { allocs[i] : i \in 1 .. Len(allocs) } :
      Cardinality({ i \in 1 .. Len(allocs) : allocs[i] = b })
        > Cardinality({ i \in 1 .. Len(deallocs) : deallocs[i] = b }) }

\* Alloc::allocate(n): any block of the heap that is free; none
\* (std::bad_alloc) when no free block is large enough
BaseBlocks(n) ==
  { p \in BlockStarts :
      /\ Block(p, n) \subseteq HeapAddrs
      /\ \A b \in BaseLive : Block(p, n) \cap Block(b[1], b[2]) = {} }

\* the history of a call: the operation, its arguments or result, where it
\* was served (<to>), whether the block came from the inline storage, the
\* state before the call, <lifo>: every call so far allocated a single
\* element or deallocated the newest inline block the client holds, and
\* <reclaims>: the deallocations so far that took the index back, up to N
Called(op, p, n, to, inl, lifo) ==
  [op |-> op, p |-> p, n |-> n, to |-> to, inline |-> inl, index |-> index,
   allocs |-> Len(allocs), deallocs |-> Len(deallocs),
   lifo |-> last.lifo /\ lifo,
   reclaims |-> IF to = "reclaimed" /\ last.reclaims < N
                THEN last.reclaims + 1 ELSE last.reclaims]

\* <live> without its i-th block
Remove(i) == [j \in 1 .. (Len(live) - 1) |-> IF j < i THEN live[j] ELSE live[j + 1]]

\* preallocator.h line 71
AllocateFits(n) == (index + n) % SizeMod <= N

\* preallocator.h lines 68-78, with RecordingAllocator::allocate
\* (test_preallocator.cc lines 49-54)
Allocate ==
  /\ alive
  /\ Len(live) < MaxLive
  /\ Len(allocs) < MaxBase
  /\ Len(deallocs) < MaxBase
  /\ \E n \in (0 .. (MaxN + 1)) \cup {SIZE_MAX} :
       IF AllocateFits(n)
       THEN /\ index' = ((index + n) % SizeMod) % IndexMod
            /\ live' = Append(live, [p |-> storage_at(index), n |-> n,
                                      inline |-> TRUE])
            /\ last' = Called("allocate", storage_at(index), n, "inline", TRUE,
                              n = 1)
            /\ UNCHANGED << allocs, deallocs >>
       ELSE IF BaseBlocks(n) = {}
       THEN /\ last' = Called("allocate", 0, n, "bad_alloc", FALSE, n = 1)
            /\ UNCHANGED << index, live, allocs, deallocs >>
       ELSE \E p \in BaseBlocks(n) :
              /\ allocs' = Append(allocs, <<p, n>>)
              /\ live' = Append(live, [p |-> p, n |-> n, inline |-> FALSE])
              /\ last' = Called("allocate", p, n, "base", FALSE, n = 1)
              /\ UNCHANGED << index, deallocs >>
  /\ UNCHANGED << N, alive, overlap_step, diffVars >>

\* std::allocator::deallocate (test_preallocator.cc line 59): whether the
\* process is alive after it
FreeReturns(p, n) ==
  IF << p, n >> \in BaseLive THEN { TRUE } ELSE BOOLEAN

\* deallocate never reclaiming
DeallocateAtEndNever(p, n) == FALSE

\* preallocator.h line 83
DeallocateAtEnd(p, n) == (p + n) % SizeMod = storage_at(index)

\* preallocator.h line 86
DeallocateInline(p) == storage_at(0) <= p /\ p < storage_at(index)

\* preallocator.h lines 80-92, with RecordingAllocator::deallocate
\* (test_preallocator.cc lines 56-60), of a block the client holds
Deallocate ==
  /\ alive
  /\ \E i \in 1 .. Len(live) :
       LET h      == live[i]
           newest == /\ h.inline
                     /\ \A j \in (i + 1) .. Len(live) : ~live[j].inline
       IN /\ live' = Remove(i)
          /\ IF DeallocateAtEnd(h.p, h.n)
             THEN /\ index' = ((index + SizeMod - h.n) % SizeMod) % IndexMod
                  /\ last' = Called("deallocate", h.p, h.n, "reclaimed",
                                    h.inline, newest)
                  /\ UNCHANGED << allocs, deallocs, alive >>
             ELSE IF DeallocateInline(h.p)
             THEN /\ last' = Called("deallocate", h.p, h.n, "discarded",
                                    h.inline, newest)
                  /\ UNCHANGED << index, allocs, deallocs, alive >>
             ELSE \* RecordingAllocator::deallocate records the call, then
                  \* std::allocator frees the block: of a pointer that is
                  \* not a block of the heap the behaviour is undefined,
                  \* the call returns or the process is killed
                  /\ deallocs' = Append(deallocs, <<h.p, h.n>>)
                  /\ last' = Called("deallocate", h.p, h.n, "base", h.inline,
                                    newest)
                  /\ alive' \in FreeReturns(h.p, h.n)
                  /\ UNCHANGED << index, allocs >>
  /\ UNCHANGED << N, overlap_step, diffVars >>

\* preallocator.h lines 44-45: a new allocator of capacity in <Ns>
InitAlloc(Ns) ==
  /\ N \in Ns
  /\ alive = TRUE
  /\ index = 0
  /\ live = <<>>
  /\ allocs = <<>>
  /\ deallocs = <<>>
  /\ last = [op |-> "none", p |-> 0, n |-> 0, to |-> "none", inline |-> FALSE,
             index |-> 0, allocs |-> 0, deallocs |-> 0, lifo |-> TRUE,
             reclaims |-> 0]

(* --------------------------- specifications --------------------------- *)

\* no pass of the overlap loop on its own
NoOverlapStep ==
  [prev_object_map |-> <<>>, object_map |-> <<>>, before |-> <<>>,
   after |-> <<>>, applied |-> TRUE]

\* the values of an entry of object_diff_state
DiffStates ==
  {OBJECT_DIFF_STATE_NONE, OBJECT_DIFF_STATE_UPDATED, OBJECT_DIFF_STATE_HOLE}

\* the steps of the driving thread up to the period loop
Prologue ==
  \/ Resolve
  \/ FastDiffBegin
  \/ ParentDiff
  \/ While
  \/ EndOfPeriod

\* the steps of the slow path
SlowPath ==
  \/ StartOp
  \/ Send
  \/ InvokeEnter
  \/ Drain
  \/ CallbackCall
  \/ CallbackReturn
  \/ WaitErr
  \/ WaitFinal
  \/ \E q \in sent : Finish(q)

\* the steps of the fast path
FastPath ==
  \/ WalkStep
  \/ WalkBreak
  \/ FastObject
  \/ FastCallback

\* the slow path: every range, both granularities and every concurrency
\* limit, diffing the head from the beginning of time without fast diff
InitSlow ==
  /\ InitState({0}, {{}}, {CEPH_NOSNAP}, 0 .. (ObjSize - 1), 0 .. MaxLen,
               BOOLEAN, {FALSE}, {{}}, {FALSE}, 0 .. MaxOps)
  /\ InitAlloc({1})
  /\ overlap_step = NoOverlapStep

NextSlow == Prologue \/ SlowPath

Spec == InitSlow /\ [][NextSlow]_vars

\* the steps of the driving thread on the slow path
Driver ==
  \/ Prologue
  \/ StartOp
  \/ Send
  \/ InvokeEnter
  \/ Drain
  \/ CallbackCall
  \/ CallbackReturn
  \/ WaitErr
  \/ WaitFinal

\* the completion of a query that was sent
Completion == \E q \in sent : Finish(q)

\* the slow path with a driving thread that is scheduled, callbacks that
\* return and queries that complete
InitLive ==
  /\ InitState({0}, {{}}, {CEPH_NOSNAP}, {0},
               {0, ObjSize + 1, MaxLen}, BOOLEAN, {FALSE}, {{}},
               {FALSE}, 0 .. MaxOps)
  /\ InitAlloc({1})
  /\ overlap_step = NoOverlapStep

SpecLive ==
  /\ InitLive
  /\ [][NextSlow]_vars
  /\ WF_vars(Driver)
  /\ WF_vars(Completion)

Next == Prologue \/ SlowPath \/ FastPath

\* with the return of a parent diff to line 335
NextParent == Next \/ ParentReturn

\* snapshot resolution: every snapshot table, name and end snapshot, with a
\* range of at most one byte
InitResolve ==
  /\ InitState(0 .. MaxSnapId, SUBSET (1 .. MaxSnapId), AllSnapIds, {0},
               {0, 1}, BOOLEAN, BOOLEAN, {{}}, {FALSE}, {1})
  /\ InitAlloc({1})
  /\ overlap_step = NoOverlapStep

SpecResolve == InitResolve /\ [][Next]_vars

\* the fast-diff walk and what follows it: whole-object diffs, with and
\* without include_parent, of an image with the fast-diff feature and of
\* one without it; the image has no parent
InitFast ==
  /\ InitState({0, 1}, {{}, {1}, {1, 2}}, AllSnapIds, {0},
               {0, ObjSize + 1}, {TRUE}, BOOLEAN, {{}, {1}}, BOOLEAN,
               {1})
  /\ parent = FALSE
  /\ InitAlloc({1})
  /\ overlap_step = NoOverlapStep

SpecFast == InitFast /\ [][Next]_vars

\* the parent diff: diffs of either granularity, from the beginning of
\* time and from snapshot 1, with and without include_parent, of an image
\* with snapshot 1, with or without a parent, read at the head
InitParentDiff ==
  /\ InitState({0, 1}, {{1}}, {CEPH_NOSNAP}, {0}, {0, 1}, BOOLEAN,
               {FALSE}, {{}}, BOOLEAN, {1})
  /\ InitAlloc({1})
  /\ overlap_step = NoOverlapStep

SpecParentDiff == InitParentDiff /\ [][NextParent]_vars

\* diff_object_map on its own: every snapshot table, from and end snapshot
\* and every set of snapshots flagged invalid, for an empty range
InitWalk ==
  /\ InitState({0, 1}, {{}, {1}, {1, 2}}, AllSnapIds, {0}, {0}, {TRUE},
               {TRUE}, SUBSET AllSnapIds, {FALSE}, {1})
  /\ InitAlloc({1})
  /\ overlap_step = NoOverlapStep

NextWalk == Resolve \/ FastDiffBegin \/ WalkStep \/ WalkBreak

SpecWalk == InitWalk /\ [][NextWalk]_vars

\* the size check of diff_object_map: every object map of at most MaxObjs
\* objects against every logical size of at most MaxObjs objects, beside
\* a DiffIterate that is not executed
InitSizeCheck ==
  /\ InitState({0}, {{}}, {CEPH_NOSNAP}, {0}, {0}, {FALSE}, {FALSE}, {{}},
               {FALSE}, {1})
  /\ InitAlloc({1})
  /\ \E loaded \in ObjectMaps, size \in 0 .. (MaxObjs * ObjSize) :
       overlap_step = [loaded |-> loaded, current_size |-> size,
                       object_map |-> <<>>, r |-> 0, applied |-> FALSE]

NextSizeCheck == ApplySizeCheck

\* the C_DiffObject of a read of <len> bytes at <o_off>
DiffObjectOf(o_off, len) ==
  [m_request_num    |-> 0,
   m_offset         |-> o_off,
   m_object_extents |-> file_to_extents(o_off, len)[1].extents]

\* the two C_DiffObject of a read of 3 bytes at 0 of an image striped byte
\* by byte over two objects: object 0 has bytes 0 and 2, object 1 byte 1
StripedDiffObjects ==
  { [m_request_num    |-> 0,
     m_offset         |-> 0,
     m_object_extents |-> << [objectno |-> 0, offset |-> 0, length |-> 2,
                              buffer_extents |-> << <<0, 1>>, <<2, 1>> >>] >>],
    [m_request_num    |-> 1,
     m_offset         |-> 0,
     m_object_extents |-> << [objectno |-> 1, offset |-> 0, length |-> 1,
                              buffer_extents |-> << <<1, 1>> >>] >>] }

\* the C_DiffObject execute() builds: every read inside a period of the
\* first two objects, and the striped ones
DiffObjects ==
  { DiffObjectOf(p[1], p[2]) :
      p \in { ol \in (0 .. (2 * ObjSize - 1)) \X (1 .. ObjSize) :
                (ol[1] % ObjSize) + ol[2] <= ObjSize } }
    \cup StripedDiffObjects

\* compute_diffs on its own: every C_DiffObject, every diff of the object
\* and both granularities, beside a DiffIterate that is not executed
InitCompute ==
  /\ InitState({0}, {{}}, {CEPH_NOSNAP}, {0}, {0}, BOOLEAN, {FALSE}, {{}},
               {FALSE}, {1})
  /\ InitAlloc({1})
  /\ \E q \in DiffObjects, diff \in SnapSetDiffs, end_exists \in BOOLEAN :
       overlap_step = [q |-> q, diff |-> diff, end_exists |-> end_exists,
                       diffs |-> <<>>, applied |-> FALSE]

NextCompute == ApplyComputeDiffs

SpecCompute == InitCompute /\ [][NextCompute]_vars

\* the slow path of an image that can have a parent: diffs from the
\* beginning of time and from snapshot 1, with and without the parent diff
InitNotFound ==
  /\ InitCallback({0, 1}, {{1}}, {CEPH_NOSNAP}, {1}, {2},
                  {FALSE}, {FALSE}, {{}}, BOOLEAN, {1}, {"user"},
                  {Image({}, FALSE, 1, ObjSize),
                   Image({}, FALSE, 1, 2 * ObjSize)})
  /\ InitAlloc({1})
  /\ overlap_step = NoOverlapStep

NextNotFound == Driver \/ FinishRecorded \/ ParentReturn

SpecNotFound == InitNotFound /\ [][NextNotFound]_vars

\* the parent diff of lines 331-335 on its own: a DiffIterate of the
\* parent image from the beginning of time over [0, overlap) with
\* include_parent set, either granularity and simple_diff_cb for the
\* callback; the parent image has the fast-diff feature and no parent of
\* its own
InitParentRun ==
  /\ InitCallback({0}, {{}, {1}, {1, 2}}, AllSnapIds, {0},
                  ImageSizes \ {0}, BOOLEAN, {TRUE}, {{}}, BOOLEAN, {1},
                  {"simple_diff_cb"}, {NoImage})
  /\ m_include_parent = TRUE
  /\ parent = FALSE
  /\ InitAlloc({1})
  /\ overlap_step = NoOverlapStep

SpecParentRun == InitParentRun /\ [][Next]_vars

SpecSizeCheck == InitSizeCheck /\ [][NextSizeCheck]_vars

\* the preallocator: every capacity, every sequence of calls by a client
\* that deallocates the blocks it was given, beside a DiffIterate that is
\* not executed
InitPrealloc ==
  /\ InitState({0}, {{}}, {CEPH_NOSNAP}, {0}, {0}, {FALSE}, {FALSE}, {{}},
               {FALSE}, {1})
  /\ InitAlloc(1 .. MaxN)
  /\ overlap_step = NoOverlapStep

NextPrealloc == Allocate \/ Deallocate

SpecPrealloc == InitPrealloc /\ [][NextPrealloc]_vars

\* the overlap loop of diff_object_map: every pair of object maps of at
\* most MaxObjs objects and every object_diff_state of the size of the
\* previous map, beside a DiffIterate that is not executed
InitOverlap ==
  /\ InitState({0}, {{}}, {CEPH_NOSNAP}, {0}, {0}, {FALSE}, {FALSE}, {{}},
               {FALSE}, {1})
  /\ InitAlloc({1})
  /\ \E prev \in ObjectMaps, map \in ObjectMaps :
       \E before \in SeqsUpTo(DiffStates, MaxObjs) :
         /\ Len(before) = Len(prev)
         /\ overlap_step = [prev_object_map |-> prev, object_map |-> map,
                            before |-> before, after |-> <<>>,
                            applied |-> FALSE]

NextOverlap == ApplyDiffOverlap

SpecOverlap == InitOverlap /\ [][NextOverlap]_vars

(* ------------------------------- claims ------------------------------- *)

\* execute() has returned
Done == pc = "done"

\* execute() has returned from the slow path (lines 385, 396, 400)
DoneSlow == Done /\ hist.ret_line \in {385, 396, 400}

\* nothing has been started: no request number assigned, no query built or
\* sent, no object map walk, no parent diff, no callback
NoWork ==
  /\ m_next_request = 0
  /\ m_pending_ops = 0
  /\ hist.queries_sent = 0
  /\ sent = {}
  /\ ~hist.fast_tried
  /\ hist.parent_runs = 0
  /\ hist.callbacks = 0

\* C1: within one invocation the offsets passed to the user callback are
\* non-decreasing: each invocation's offset is at least the offset of the
\* invocation before it.
C1_OffsetsNonDecreasing ==
  Len(hist.offsets) = 2 => hist.offsets[1] <= hist.offsets[2]

\* C2: the number of in-flight object queries never exceeds the configured
\* concurrency limit.
C2_PendingWithinLimit == m_pending_ops <= concurrent_management_ops

\* C2 witness: the driving thread is at start_op with another object to
\* submit and the count at the limit, so it waits.
C2_Witness ==
  /\ pc = "for"
  /\ todo # <<>>
  /\ concurrent_management_ops = MaxOps
  /\ m_pending_ops = concurrent_management_ops

\* C3: when execute() has returned, no object query it submitted is
\* outstanding.
C3_NothingOutstandingAtReturn ==
  Done => m_pending_ops = 0 /\ sent = {}

\* C3 witness: a return on the error path of line 385 after two queries.
C3_Witness ==
  /\ Done
  /\ hist.ret_line = 385
  /\ hist.queries_sent >= 2

\* C4: once m_return_value is negative no step changes it.
C4_StickyErrorKept ==
  [][m_return_value < 0 => m_return_value' = m_return_value]_vars

\* C4 witness: a second negative status was seen after the sticky error was
\* set.
C4_Witness ==
  /\ m_return_value < 0
  /\ hist.failures >= 2

\* C5: a return from the slow path returns the first negative status seen
\* from a query or from the callback, and 0 when none was seen.
C5_ReturnsFirstFailure ==
  DoneSlow => ret = hist.first_failure

\* C5 witness: a return of the first failure after a second one was seen.
C5_Witness ==
  /\ DoneSlow
  /\ ret < 0
  /\ hist.failures >= 2

\* C6 as stated: start_op is never called with the sticky error set.
C6_NoSubmitAfterError == hist.late_submits = 0

\* C6 amended: start_op is called at most once with the sticky error set.
C6_OneSubmitAfterError == hist.late_submits <= 1

\* C6 witness: an invocation that submitted a query after the sticky error
\* was set has returned.
C6_Witness ==
  /\ Done
  /\ hist.late_submits = 1

\* the from snapshot name was given and is not a snapshot of the image
Unresolved == m_from_snap_name # 0 /\ m_from_snap_name \notin snaps

\* C7: when the from snapshot resolves to the end snapshot, execute() has
\* returned 0 without starting any work.
C7_EqualSnapshotsNoDiff ==
  (pc # "resolve" /\ ~Unresolved /\ from_snap_id = end_snap_id)
    => (Done /\ ret = 0 /\ NoWork)

\* C7 witness: a non-empty range with the from snapshot equal to the end
\* snapshot.
C7_Witness ==
  /\ Done
  /\ ~Unresolved
  /\ from_snap_id = end_snap_id
  /\ m_length > 0

\* C8: an unresolved from snapshot name gives -ENOENT, a resolved from
\* snapshot id greater than the end snapshot id gives -EINVAL.
C8_ResolutionFailures ==
  pc # "resolve" =>
    /\ Unresolved => (Done /\ ret = -ENOENT)
    /\ (~Unresolved /\ from_snap_id > end_snap_id)
         => (Done /\ ret = -EINVAL)

\* C8 witness: an unresolved name with the head as the end snapshot.
C8_Witness ==
  /\ Done
  /\ Unresolved
  /\ snap_id = CEPH_NOSNAP

\* C9: a resolution failure returns before any work is started.
C9_ResolutionFailsBeforeWork ==
  (pc # "resolve" /\ (Unresolved \/ from_snap_id > end_snap_id))
    => (Done /\ ret < 0 /\ NoWork)

\* C9 witness: the invalid-range failure for a whole-object diff of an image
\* with fast diff.
C9_Witness ==
  /\ Done
  /\ hist.ret_line = 294
  /\ m_whole_object
  /\ fast_diff_feature

\* diff_object_map was called and failed
FastDiffFailed == hist.fast_tried /\ ~walk.active /\ ~fast_diff_enabled

\* the objects of the requested range
ObjectsInRange ==
  IF m_length = 0 THEN 0
  ELSE (m_offset + m_length - 1) \div ObjSize - m_offset \div ObjSize + 1

\* execute() is at line 313 in the state every run without fast diff has
\* there, whether it has attempted fast diff or not, but for r, which line
\* 303 has assigned, for what the walk has left in object_diff_state, and
\* for the record of the attempt
SlowPathEntry ==
  /\ walk = NoWalk
  /\ ~fast_diff_enabled
  /\ parent_diff = {}
  /\ m_lock = "free"
  /\ m_pending_ops = 0
  /\ m_return_value = 0
  /\ m_next_request = 0
  /\ m_waiting_request = 0
  /\ m_request_diffs = << >>
  /\ diffs = <<>>
  /\ cb = <<>>
  /\ diff_object = <<>>
  /\ sent = {}
  /\ off = 0
  /\ left = 0
  /\ read_len = 0
  /\ todo = <<>>
  /\ qs = <<>>
  /\ updated = FALSE
  /\ call_site = 0
  /\ ret = Running
  /\ hist = [HistInit EXCEPT !.fast_tried = hist.fast_tried,
                             !.r_from = IF hist.fast_tried
                                        THEN "diff_object_map" ELSE "none"]

\* C10: a run whose diff_object_map has failed and a run that has not
\* attempted fast diff reach the parent diff in the same state (r and the
\* object_diff_state nothing reads on the slow path apart); after the
\* failure execute() never reports an object from the object map, the value
\* it returns was not assigned by diff_object_map, and a return without a
\* failure has sent a query for every object of the range.
C10_FastDiffFailureNotReturned ==
  /\ (pc = "parent" /\ ~fast_diff_enabled) => SlowPathEntry
  /\ FastDiffFailed =>
    /\ pc # "fast_cb"
    /\ pc = "parent" => /\ m_next_request = 0
                        /\ hist.queries_sent = 0
                        /\ hist.callbacks = 0
                        /\ m_return_value = 0
    /\ Done => /\ ret = r
               /\ hist.r_from # "diff_object_map"
               /\ hist.ret_line \in {338, 385, 396, 400}
    /\ (Done /\ ret >= 0) => hist.queries_sent = ObjectsInRange

\* C10 witness: a return of 0 after a failed diff_object_map and queries on
\* the slow path.
C10_Witness ==
  /\ FastDiffFailed
  /\ Done
  /\ ret = 0
  /\ hist.queries_sent >= 2
  /\ hist.callbacks >= 1

\* C11: while the user callback runs the lock is free, so that the completion
\* of an outstanding query can take its step; the callback is entered only by
\* the driving thread at line 67, never by a completion, and one record at a
\* time.
C11_CallbackOutsideLock ==
  /\ [](pc = "in_callback" =>
         /\ m_lock = "free"
         /\ \A q \in sent : ENABLED Finish(q))
  /\ []((cb # <<>>) <=> (pc = "in_callback"))
  /\ [][hist.callbacks' # hist.callbacks =>
         /\ pc = "for_diffs"
         /\ pc' = "in_callback"
         /\ hist.callbacks' = hist.callbacks + 1]_vars

\* C11 witness: the callback is running while a query is outstanding and
\* the result of a later request is already buffered.
C11_Witness ==
  /\ pc = "in_callback"
  /\ sent # {}
  /\ DOMAIN m_request_diffs # {}

\* C12: allocate(n) is served from the inline storage exactly when the whole
\* request fits, index + n <= N, and then the base allocator is not called;
\* otherwise the whole request goes to the base allocator and index is
\* unchanged.
C12_InlineIffFits ==
  last.op = "allocate" =>
    /\ (last.to = "inline") <=> (last.index + last.n <= N)
    /\ last.to = "inline" =>
         /\ Len(allocs) = last.allocs
         /\ index = last.index + last.n
         /\ last.p = storage_at(last.index)
    /\ last.to # "inline" => index = last.index
    /\ last.to = "base" =>
         /\ Len(allocs) = last.allocs + 1
         /\ allocs[Len(allocs)] = << last.p, last.n >>

\* the inline blocks the client holds
InlineLive == { i \in 1 .. Len(live) : live[i].inline }

\* C13: deallocating the inline block that ends at the inline index takes
\* n off the index and does not call the base allocator; so, as long as
\* single elements are allocated and the inline blocks are deallocated in
\* reverse allocation order, the index is the number of inline blocks held,
\* and a single-element allocation is served inline exactly when fewer than
\* N are held.
C13_DeallocateBackReclaims ==
  /\ (/\ last.op = "deallocate"
      /\ last.inline
      /\ last.p + last.n = storage + last.index)
       => /\ last.to = "reclaimed"
          /\ index = last.index - last.n
          /\ Len(deallocs) = last.deallocs
  /\ last.lifo =>
       /\ index = Cardinality(InlineLive)
       /\ last.op = "allocate" =>
            /\ (last.to = "inline") <=> (last.index < N)
            /\ last.to = "inline" => Len(allocs) = last.allocs
            /\ last.to = "base" => Len(allocs) = last.allocs + 1

\* C13 witness: N single-element blocks were allocated inline, deallocated in
\* reverse order and allocated inline again, and the next one came from the
\* base allocator.
C13_Witness ==
  /\ last.lifo
  /\ last.reclaims = N
  /\ N = MaxN
  /\ last.op = "allocate"
  /\ last.to = "base"
  /\ last.index = N
  /\ Cardinality(InlineLive) = N

\* the calls in <calls> with the pair <c>
Count(calls, c) == Cardinality({ i \in 1 .. Len(calls) : calls[i] = c })

\* C14: deallocating an inline block that does not end at the inline index
\* leaves the index alone and does not call the base allocator; the base
\* allocator's deallocate receives only pairs its allocate returned, each
\* once, and all of them once the client has returned every block.
C14_BaseDeallocatesItsOwn ==
  /\ (/\ last.op = "deallocate"
      /\ last.inline
      /\ last.p + last.n # storage + last.index)
       => /\ last.to = "discarded"
          /\ index = last.index
          /\ Len(deallocs) = last.deallocs
  /\ \A i \in 1 .. Len(deallocs) :
       Count(deallocs, deallocs[i]) <= Count(allocs, deallocs[i])
  /\ live = <<>> =>
       \A i \in 1 .. Len(allocs) :
         Count(deallocs, allocs[i]) = Count(allocs, allocs[i])

\* C15: every record passed to the user callback lies inside the requested
\* range: it starts at or after m_offset and ends at or before
\* m_offset + m_length.
C15_RecordsInRange == hist.in_range

\* the records of a request are being passed to the callback
Delivering == pc \in {"for_diffs", "in_callback"}

\* C16: m_waiting_request never passes m_next_request; the request whose
\* records are being passed to the callback is request m_waiting_request,
\* and it is the next in submission order after the ones delivered before
\* it; a drain that finds request m_waiting_request buffered delivers it,
\* and one that does not returns.
C16_TicketLedger ==
  /\ [](m_waiting_request <= m_next_request)
  /\ [](Delivering =>
          /\ hist.delivering = m_waiting_request
          /\ hist.deliveries = m_waiting_request + 1)
  /\ [](~Delivering => hist.deliveries \in {m_waiting_request,
                                            m_waiting_request + 1})
  /\ [][pc = "drain" =>
          IF m_waiting_request \in DOMAIN m_request_diffs
          THEN /\ pc' = "for_diffs"
               /\ diffs' = m_request_diffs[m_waiting_request]
               /\ m_waiting_request \notin DOMAIN m_request_diffs'
          ELSE /\ pc' \in {"for", "done"}
               /\ r' = 0
               /\ UNCHANGED << m_waiting_request, m_request_diffs >>]_vars

\* C16 witness: request 1 has completed before request 0, and the drain
\* finds it buffered while request 0, the one it waits for, is outstanding.
C16_Witness ==
  /\ pc = "drain"
  /\ m_waiting_request = 0
  /\ DOMAIN m_request_diffs = {1}
  /\ m_request_diffs[1] # <<>>
  /\ \E q \in sent : q.m_request_num = 0

\* C17: when the slow path has returned 0, every request submitted has
\* completed and has been taken from the buffer in turn, the callback was
\* invoked once for each record stored, the buffer is empty and
\* m_waiting_request = m_next_request; and each completion stores an entry
\* under its request number.
C17_SuccessDeliversEverything ==
  /\ []((DoneSlow /\ ret = 0) =>
          /\ sent = {}
          /\ m_pending_ops = 0
          /\ DOMAIN m_request_diffs = {}
          /\ diffs = <<>>
          /\ m_waiting_request = m_next_request
          /\ hist.queries_sent = m_next_request
          /\ hist.deliveries = m_next_request
          /\ hist.callbacks = hist.stored)
  /\ [][\A q \in sent \ sent' :
          q.m_request_num \in DOMAIN m_request_diffs']_vars

\* C17 witness: a whole-object diff of two objects has returned 0 after one
\* completion without a record and one with a record.
C17_Witness ==
  /\ DoneSlow
  /\ ret = 0
  /\ m_whole_object
  /\ m_next_request = 2
  /\ hist.callbacks = 1

\* the driving thread waits on m_cond
Waiting == pc \in {"start_wait", "wait_err_wait", "wait_final_wait"}

\* C18: with a concurrency limit of at least 1, execute() eventually
\* returns, and a driving thread that waits in start_op or in wait_for_ret
\* is eventually woken.
C18_Terminates ==
  /\ (concurrent_management_ops >= 1) ~> Done
  /\ (concurrent_management_ops >= 1 /\ Waiting) ~> ~Waiting

\* C18 witness: the driving thread waits in start_op for a slot, the limit
\* being 1 or more.
C18_Witness ==
  /\ pc = "start_wait"
  /\ concurrent_management_ops >= 1
  /\ m_pending_ops = concurrent_management_ops

\* C19: once an invocation of the user callback has returned a negative
\* status, the callback is not invoked again.
C19_NoCallbackAfterAbort == ~hist.cb_after

\* C20: after one pass of the overlap loop, for every index both maps have,
\* object_diff_state is Hole when the current state is Nonexistent and the
\* previous is not; it is Updated when the current state is Exists, or is
\* not Nonexistent, differs from the previous one and the pair is not
\* (Exists, ExistsClean); in every other case, and at every index only the
\* previous map has, it keeps its value.
C20_OverlapClassification ==
  overlap_step.applied =>
    LET prev   == overlap_step.prev_object_map
        map    == overlap_step.object_map
        before == overlap_step.before
        after  == overlap_step.after
        both   == { i \in 1 .. Len(prev) : i <= Len(map) }
        Hole(i) == map[i] = OBJECT_NONEXISTENT /\ prev[i] # OBJECT_NONEXISTENT
        Updated(i) ==
          \/ map[i] = OBJECT_EXISTS
          \/ /\ map[i] # OBJECT_NONEXISTENT
             /\ map[i] # prev[i]
             /\ << prev[i], map[i] >> # << OBJECT_EXISTS, OBJECT_EXISTS_CLEAN >>
    IN /\ Len(after) = Len(before)
       /\ \A i \in both :
            /\ Hole(i) => after[i] = OBJECT_DIFF_STATE_HOLE
            /\ Updated(i) => after[i] = OBJECT_DIFF_STATE_UPDATED
            /\ (~Hole(i) /\ ~Updated(i)) => after[i] = before[i]
       /\ \A i \in (1 .. Len(before)) \ both : after[i] = before[i]

\* C20 witness: a pass over two objects, one that went from Exists to
\* ExistsClean and keeps its Hole, one that went to Nonexistent.
C20_Witness ==
  /\ overlap_step.applied
  /\ Len(overlap_step.prev_object_map) = 2
  /\ Len(overlap_step.object_map) = 2
  /\ overlap_step.prev_object_map[1] = OBJECT_EXISTS
  /\ overlap_step.object_map[1] = OBJECT_EXISTS_CLEAN
  /\ overlap_step.before[1] = OBJECT_DIFF_STATE_HOLE
  /\ overlap_step.after[1] = OBJECT_DIFF_STATE_HOLE
  /\ overlap_step.object_map[2] = OBJECT_NONEXISTENT
  /\ overlap_step.after[2] = OBJECT_DIFF_STATE_HOLE

\* the step from <walk> has run the two loops of an iteration
Stepped == pc = "walk" /\ pc' \in {"walk", "walk_break"}

\* C21: in an iteration of the walk, an index both maps have for which
\* neither classification rule fires keeps the object_diff_state the
\* earlier iterations left.
C21_UnaffectedIndexKept ==
  [][Stepped =>
       LET prev == walk.prev_object_map
           map  == walk'.object_map
       IN \A i \in 1 .. Len(prev) :
            (/\ i <= Len(map)
             /\ \/ prev[i] = OBJECT_NONEXISTENT /\ map[i] = OBJECT_NONEXISTENT
                \/ prev[i] = OBJECT_EXISTS_CLEAN /\ map[i] = OBJECT_EXISTS_CLEAN
                \/ prev[i] = OBJECT_EXISTS /\ map[i] = OBJECT_EXISTS_CLEAN)
            => object_diff_state'[i] = object_diff_state[i]]_vars

\* C21 witness: the second iteration of a diff from snapshot 1 has run on
\* an object that is ExistsClean in snapshot 2 and was Exists or ExistsClean
\* in snapshot 1: it has kept the None of the first iteration.
C21_Witness ==
  /\ pc = "walk"
  /\ ~walk.diff_from_start
  /\ walk.from_snap_id = 1
  /\ snaps = {1, 2}
  /\ walk.current_snap_id = CEPH_NOSNAP
  /\ Len(walk.prev_object_map) >= 1
  /\ walk.prev_object_map[1] = OBJECT_EXISTS_CLEAN
  /\ object_diff_state[1] = OBJECT_DIFF_STATE_NONE

\* C22: an index that some iteration of the walk has classified Updated or
\* Hole is not None afterwards, as long as object_diff_state has it.
C22_ClassificationMonotonic ==
  walk.active =>
    \A i \in walk.classified :
      i <= Len(object_diff_state) =>
        object_diff_state[i] # OBJECT_DIFF_STATE_NONE

\* C23: in an iteration of the walk, an index only the current map has is
\* None when the object is Nonexistent and Updated otherwise if the diff is
\* from the start or a previous map was loaded; else (the first iteration
\* of a diff from a snapshot) it is None.
C23_GrowthClassification ==
  [][Stepped =>
       LET prev == walk.prev_object_map
           map  == walk'.object_map
       IN /\ Len(object_diff_state') = Len(map)
          /\ \A i \in (Len(prev) + 1) .. Len(map) :
               object_diff_state'[i] =
                 IF walk.diff_from_start \/ walk.prev_object_map_valid
                 THEN (IF map[i] = OBJECT_NONEXISTENT
                       THEN OBJECT_DIFF_STATE_NONE
                       ELSE OBJECT_DIFF_STATE_UPDATED)
                 ELSE OBJECT_DIFF_STATE_NONE]_vars

\* C23 witness: the first iteration of a diff from snapshot 1 has left an
\* object that exists in that snapshot None.
C23_Witness ==
  /\ pc = "walk"
  /\ ~walk.diff_from_start
  /\ walk.from_snap_id = 1
  /\ walk.current_snap_id = NextSnapId(1)
  /\ Len(walk.prev_object_map) >= 1
  /\ walk.prev_object_map[1] = OBJECT_EXISTS
  /\ object_diff_state[1] = OBJECT_DIFF_STATE_NONE

\* C24: an object map with fewer entries than the objects of the
\* snapshot's size makes the iteration fail with -EINVAL; any other is cut
\* to exactly that many entries, the first ones.
C24_SizeCheck ==
  (overlap_step.applied /\ "loaded" \in DOMAIN overlap_step) =>
    LET loaded   == overlap_step.loaded
        num_objs == (overlap_step.current_size + ObjSize - 1) \div ObjSize
    IN IF Len(loaded) < num_objs
       THEN overlap_step.r = -EINVAL
       ELSE /\ overlap_step.r = 0
            /\ overlap_step.object_map = SubSeq(loaded, 1, num_objs)

\* C24 witness: an object map of two entries for a snapshot of one object
\* was cut to its first entry.
C24_Witness ==
  /\ overlap_step.applied
  /\ "loaded" \in DOMAIN overlap_step
  /\ Len(overlap_step.loaded) = 2
  /\ overlap_step.current_size = 1
  /\ overlap_step.r = 0
  /\ Len(overlap_step.object_map) = 1

\* C25: no object map of a snapshot flagged invalid is loaded: the walk
\* fails at that snapshot.
C25_NoInvalidMapLoaded == walk.active => ~walk.flagged

\* the snapshot after <s> in the chain, the head after the last one
Successor(s) ==
  IF \E t \in snaps : t > s
  THEN CHOOSE t \in snaps : t > s /\ \A u \in snaps : u > s => t <= u
  ELSE CEPH_NOSNAP

\* C26: the walk starts at the from snapshot (the oldest snapshot, or the
\* head, for a diff from the start), goes on to the successor of the
\* snapshot it has processed, never has a snapshot beyond the end
\* snapshot, leaves the loop having processed the end snapshot, and then
\* object_diff_state has one entry for each object of the end snapshot's
\* size.
C26_WalkOrder ==
  /\ [](walk.active => walk.current_snap_id <= end_snap_id)
  /\ []((pc = "walk_break") =>
          /\ walk.current_snap_id = end_snap_id
          /\ Len(object_diff_state) =
               (walk.current_size + ObjSize - 1) \div ObjSize)
  /\ [][(pc = "fastdiff" /\ pc' = "walk") =>
          walk'.current_snap_id =
            IF from_snap_id # 0 THEN from_snap_id
            ELSE IF snaps = {} THEN CEPH_NOSNAP
            ELSE CHOOSE s \in snaps : \A t \in snaps : s <= t]_vars
  /\ [][(pc = "walk" /\ pc' = "walk") =>
          /\ walk.current_snap_id # CEPH_NOSNAP
          /\ walk.current_snap_id < end_snap_id
          /\ walk'.current_snap_id = Successor(walk.current_snap_id)]_vars
  /\ [][(pc = "walk" /\ pc' = "walk_break") =>
          walk'.current_snap_id = walk.current_snap_id]_vars

\* C26 witness: a diff from the start of an image with two snapshots has
\* left the loop at the head with a classification of two objects.
C26_Witness ==
  /\ pc = "walk_break"
  /\ walk.diff_from_start
  /\ snaps = {1, 2}
  /\ end_snap_id = CEPH_NOSNAP
  /\ walk.current_snap_id = CEPH_NOSNAP
  /\ Len(object_diff_state) = 2

\* C27: when the walk has left the loop, an object classified Updated is
\* not Nonexistent in the end snapshot's object map and an object
\* classified Hole is Nonexistent in it.
C27_AgreesWithEndMap ==
  (pc = "walk_break") =>
    \A i \in 1 .. Len(object_diff_state) :
      /\ object_diff_state[i] = OBJECT_DIFF_STATE_UPDATED =>
           walk.object_map[i] # OBJECT_NONEXISTENT
      /\ object_diff_state[i] = OBJECT_DIFF_STATE_HOLE =>
           walk.object_map[i] = OBJECT_NONEXISTENT

\* C27 witness: the walk over three object maps has left the loop with an
\* Updated object and a Hole.
C27_Witness ==
  /\ pc = "walk_break"
  /\ snaps = {1, 2}
  /\ walk.current_snap_id = CEPH_NOSNAP
  /\ Len(object_diff_state) = 2
  /\ object_diff_state[1] = OBJECT_DIFF_STATE_UPDATED
  /\ object_diff_state[2] = OBJECT_DIFF_STATE_HOLE

\* the objects of the requested range that the object map walk classified
ClassifiedInRange ==
  { o \in (m_offset \div ObjSize) .. ((m_offset + m_length - 1) \div ObjSize) :
      /\ m_length > 0
      /\ object_diff_state[o + 1] # OBJECT_DIFF_STATE_NONE }

\* the object map walk has classified every object of the requested range
RangeInBitmap ==
  m_length > 0 =>
    (m_offset + m_length - 1) \div ObjSize < Len(object_diff_state)

\* C28: on the fast path no request number is assigned and nothing is in
\* flight; each callback is for an object whose state was read as not None
\* and gets exists = (state = Updated), the state being the entry of the
\* object in object_diff_state; after a negative status from the callback
\* execute() has returned it without another callback; a diff that ends
\* without one has invoked the callback once for every extent of the
\* objects it read as not None and for no other; and, when
\* object_diff_state has an entry for every object of the range, these are
\* the classified objects of the range, one extent each.
C28_FastPathSynchronous ==
  fast_diff_enabled =>
    /\ m_next_request = 0
    /\ m_pending_ops = 0
    /\ sent = {}
    /\ hist.queries_sent = 0
    /\ hist.callbacks > 0 =>
         /\ hist.fast_state # OBJECT_DIFF_STATE_NONE
         /\ hist.fast_exists = (hist.fast_state = OBJECT_DIFF_STATE_UPDATED)
         /\ hist.fast_object < Len(object_diff_state) =>
              hist.fast_state = object_diff_state[hist.fast_object + 1]
    /\ hist.cb_negative =>
         /\ Done
         /\ ret < 0
         /\ ret = r
         /\ hist.ret_line = 371
         /\ ~hist.cb_after
    /\ hist.callbacks <= hist.fast_extents
    /\ (Done /\ ret >= 0) => hist.callbacks = hist.fast_extents
    /\ RangeInBitmap =>
         /\ hist.callbacks <= Cardinality(ClassifiedInRange)
         /\ (Done /\ ret >= 0) =>
              hist.callbacks = Cardinality(ClassifiedInRange)

\* C28 witness: a fast diff of two objects has returned 0 after one
\* callback, for the object that is a Hole; the other object is None.
C28_Witness ==
  /\ fast_diff_enabled
  /\ Done
  /\ ret = 0
  /\ ObjectsInRange = 2
  /\ hist.callbacks = 1
  /\ ~hist.fast_exists
  /\ RangeInBitmap
  /\ object_diff_state[hist.fast_object + 1] = OBJECT_DIFF_STATE_HOLE

\* compute_diffs has run on its own
Computed == overlap_step.applied /\ "diffs" \in DOMAIN overlap_step

\* C29: with whole_object, an object whose diff is not empty gives one
\* record for each object extent requested: it starts at the logical offset
\* of the extent, has its length and exists = end_exists; an object whose
\* diff is empty gives none.
C29_WholeObjectRecords ==
  (Computed /\ m_whole_object) =>
    LET q    == overlap_step.q
        exts == q.m_object_extents
        ds   == overlap_step.diffs
    IN IF overlap_step.diff = {} THEN ds = <<>>
       ELSE /\ Len(ds) = Len(exts)
            /\ \A i \in 1 .. Len(exts) :
                 ds[i] = << q.m_offset + exts[i].buffer_extents[1][1],
                            exts[i].length, overlap_step.end_exists >>

\* the maximal runs <<start, length>> of the set of bytes <S>
Pieces(S) ==
  { p \in (0 .. ObjSize) \X (1 .. ObjSize) :
      /\ (p[1] .. (p[1] + p[2] - 1)) \subseteq S
      /\ (p[1] - 1) \notin S
      /\ (p[1] + p[2]) \notin S }

\* the object offset the <k>-th buffer extent of the extent <ext> starts at
BufferExtentStart(ext, k) ==
  LET RECURSIVE Before(_)
      Before(j) == IF j = 0 THEN 0
                   ELSE ext.buffer_extents[j][2] + Before(j - 1)
  IN ext.offset + Before(k - 1)

\* the records the claim gives the <k>-th buffer extent of <ext>
PieceRecords(m_off, ext, k, diff, end_exists) ==
  LET start == BufferExtentStart(ext, k)
      be    == ext.buffer_extents[k]
  IN { << m_off + be[1] + (p[1] - start), p[2], end_exists >> :
         p \in Pieces(diff \cap (start .. (start + be[2] - 1))) }

\* the sequence <ds> is the set of records <recs> in ascending order
Ascending(ds, recs) ==
  /\ Len(ds) = Cardinality(recs)
  /\ { ds[i] : i \in 1 .. Len(ds) } = recs
  /\ \A i \in 1 .. (Len(ds) - 1) : ds[i][1] < ds[i + 1][1]

\* C30: without whole_object, the records of an object extent are, buffer
\* extent after buffer extent, the maximal pieces of the diff inside the
\* buffer extent's object range in ascending order, each at the logical
\* offset m_offset + buffer offset + (piece start - range start), with its
\* length and exists = end_exists; an empty diff gives no record.
C30_SubRangeRecords ==
  (Computed /\ ~m_whole_object) =>
    LET q   == overlap_step.q
        ext == q.m_object_extents[1]
        ds  == overlap_step.diffs
        n   == Len(ext.buffer_extents)
        recs(k) == PieceRecords(q.m_offset, ext, k, overlap_step.diff,
                                overlap_step.end_exists)
        n1  == Cardinality(recs(1))
    IN /\ Len(q.m_object_extents) = 1
       /\ overlap_step.diff = {} => ds = <<>>
       /\ IF n = 1 THEN Ascending(ds, recs(1))
          ELSE /\ n = 2
               /\ Len(ds) >= n1
               /\ Ascending(SubSeq(ds, 1, n1), recs(1))
               /\ Ascending(SubSeq(ds, n1 + 1, Len(ds)), recs(2))

\* C30 witness: sub-range records of a read of the whole second object
\* whose first and last byte changed: two records of one byte.
C30_Witness ==
  /\ Computed
  /\ ~m_whole_object
  /\ overlap_step.q.m_offset = ObjSize
  /\ overlap_step.q.m_object_extents[1].length = ObjSize
  /\ overlap_step.diff = {0, ObjSize - 1}
  /\ overlap_step.diffs =
       << << ObjSize, 1, overlap_step.end_exists >>,
          << 2 * ObjSize - 1, 1, overlap_step.end_exists >> >>

\* a query has completed with object-not-found
NotFound == "sticky" \in DOMAIN overlap_step /\ overlap_step.r = -ENOENT

\* the maximal runs <<start, length>> of the set <S> of bytes of the image
Runs(S) ==
  { p \in (0 .. (MaxSize + ObjSize)) \X (1 .. (MaxSize + ObjSize)) :
      /\ (p[1] .. (p[1] + p[2] - 1)) \subseteq S
      /\ (p[1] - 1) \notin S
      /\ (p[1] + p[2]) \notin S }

\* C31: a query that completes with object-not-found leaves the sticky
\* error as it was and stores a result under its request number. When
\* from_snap_id = 0 and parent_diff is not empty the result is, in ascending
\* order, the maximal runs of the parent diff inside the logical range of
\* the requested buffer extent, each with exists = true; otherwise it is
\* empty.
C31_NotFoundIsSuccess ==
  NotFound =>
    LET q   == overlap_step.q
        num == q.m_request_num
        ext == q.m_object_extents[1]
        be  == ext.buffer_extents[1]
        range == (q.m_offset + be[1]) .. (q.m_offset + be[1] + be[2] - 1)
    IN /\ overlap_step.sticky = overlap_step.sticky_from
       /\ num \in DOMAIN overlap_step.stored
       /\ Len(q.m_object_extents) = 1
       /\ Len(ext.buffer_extents) = 1
       /\ IF from_snap_id = 0 /\ parent_diff # {}
          THEN Ascending(overlap_step.stored[num],
                         { << p[1], p[2], TRUE >> :
                             p \in Runs(range \cap parent_diff) })
          ELSE overlap_step.stored[num] = <<>>

\* C31 witness: the parent diff has bytes 2 and 3 and not byte 1; the
\* query of the read of [1, 3) completed with object-not-found: the single
\* record (2, 1, true) is stored.
C31_Witness ==
  /\ NotFound
  /\ from_snap_id = 0
  /\ 1 \notin parent_diff
  /\ 2 \in parent_diff
  /\ 3 \in parent_diff
  /\ overlap_step.q.m_offset = 1
  /\ overlap_step.q.m_object_extents[1].length = 2
  /\ overlap_step.stored[overlap_step.q.m_request_num] = << << 2, 1, TRUE >> >>
  /\ overlap_step.sticky = 0

\* execute() has got past lines 323-340 without returning
PastParent ==
  /\ pc \notin {"resolve", "fastdiff", "walk", "walk_break", "parent"}
  /\ hist.ret_line \notin {287, 291, 294, 338}

\* the conditions of the parent diff, <hist.overlap> the overlap read at
\* lines 326-327 (-1: not read)
ParentDue ==
  /\ m_include_parent
  /\ from_snap_id = 0
  /\ parent
  /\ hist.overlap > 0

\* C32: once execute() is at the period loop the parent diff has run once
\* if include_parent is set, from_snap_id = 0, the image has a parent and
\* the overlap is positive, and not at all otherwise; it was given the
\* range [0, overlap), it has returned, and what it left in parent_diff
\* lies inside the range; no query is sent and no callback invoked before
\* lines 323-340 are done; when the parent diff has failed execute() has
\* returned its status with no query sent and no callback invoked; and
\* while the parent diff runs it runs under the four conditions over
\* [0, overlap), the caller has sent no query and invoked no callback, and
\* the parent diff has not ended in a failed assertion or an exception.
C32_ParentDiffFirst ==
  /\ PastParent => hist.parent_runs = (IF ParentDue THEN 1 ELSE 0)
  /\ hist.parent_runs > 0 =>
       /\ hist.parent_runs = 1
       /\ ParentDue
       /\ hist.parent_range = << 0, hist.overlap >>
       /\ hist.parent_exit = "returned"
       /\ parent_diff \subseteq 0 .. (hist.overlap - 1)
  /\ (hist.queries_sent > 0 \/ hist.callbacks > 0) => PastParent
  /\ hist.parent_r < 0 =>
       /\ pc = "done"
       /\ ret = hist.parent_r
       /\ hist.ret_line = 338
       /\ hist.queries_sent = 0
       /\ hist.callbacks = 0
       /\ sent = {}
  /\ stack # <<>> =>
       LET f == Head(stack)
       IN /\ pc \notin {"abort", "throw"}
          /\ f.m_include_parent
          /\ f.from_snap_id = 0
          /\ f.parent
          /\ f.hist.overlap > 0
          /\ f.hist.parent_runs = 1
          /\ m_from_snap_name = 0
          /\ m_offset = 0
          /\ m_length = f.hist.overlap
          /\ f.parent_diff \subseteq 0 .. (f.hist.overlap - 1)
          /\ f.hist.queries_sent = 0
          /\ f.hist.callbacks = 0
          /\ f.sent = {}

\* C33: in a parent diff on the fast path, over a range whose objects the
\* object map walk has classified, the assertion of simple_diff_cb does not
\* fail: every record it is given has exists = true.
C33_ParentRecordsExist ==
  (/\ m_callback = "simple_diff_cb"
   /\ fast_diff_enabled
   /\ RangeInBitmap
   /\ hist.callbacks > 0)
    => (hist.fast_exists /\ pc # "abort")

\* the elements of the <i>-th block the client holds
Elements(i) == { (live[i].p + k) % SizeMod : k \in 0 .. (live[i].n - 1) }

\* C34: after any sequence of allocate calls and deallocate calls of blocks
\* the client holds, the inline index is between 0 and N and no two inline
\* blocks the client holds have an element in common.
C34_InlineBlocksDisjoint ==
  /\ 0 <= index
  /\ index <= N
  /\ \A i \in InlineLive : \A j \in InlineLive :
       i # j => Elements(i) \cap Elements(j) = {}

====
